---- MODULE Spec2Model ----
(***************************************************************************)
(* A model of @zemd/react-slottable: the useSlot hook (slot resolution,    *)
(* prop merging and its two useMemo cells), the mergeProps deep merger     *)
(* running on a JavaScript object heap, the clsx class-list concatenator   *)
(* and the paired useSlot that returns a component with its props.         *)
(***************************************************************************)
EXTENDS Integers, Sequences, FiniteSets, TLC

VARIABLES
  called,       \* useSlot has been called at this call site at least once
  name,         \* useSlot: the `name` argument of the latest call
  slots,        \* useSlot: props.slots of the latest call (an object or undefined)
  slotProps,    \* useSlot: props.slotProps of the latest call
  options,      \* useSlot: the third argument of the latest call
  memoSlot,     \* the hook's first useMemo cell (the resolved Slot)
  memoWrapped,  \* the hook's second useMemo cell (the WrappedComponent)
  returned,     \* what the latest call of useSlot returned
  out,          \* the outcome of the latest invocation of a returned callback
  heap,         \* mergeProps: the JavaScript object heap (address -> object)
  inputs,       \* mergeProps: the values passed as ...inputs
  acc,          \* mergeProps: the address of the accumulator of the reduce
  idx,          \* mergeProps: how many inputs the reduce has folded in
  pc,           \* mergeProps: "idle", "reduce", "done" or "threw"
  snap,         \* mergeProps: the heap as it was when the call started
  accBefore,    \* mergeProps: the accumulator's content before the latest fold
  clsxHeap,     \* clsx: the heap holding the arguments of the call
  clsxInputs,   \* clsx: the values passed as ...inputs
  clsxAcc,      \* clsx: the string accumulated by the reduce
  clsxIdx,      \* clsx: how many inputs the reduce has folded in
  clsxPc,       \* clsx: "idle", "reduce" or "done"
  pairPc,       \* paired useSlot: "idle", "returned" or "threw"
  pairName,     \* paired useSlot: the `name` argument of the call
  pairParams,   \* paired useSlot: the `params` argument of the call
  pairBefore,   \* paired useSlot: the heap when the call started
  pairHeap,     \* paired useSlot: the heap when the call ended
  pairResult,   \* paired useSlot: the returned [component, props]
  slotSite,     \* <Slot>: the useMemo cells of the useSlot call inside Slot
  slotOut,      \* <Slot>: the props and the result of the latest render of Slot
  slottableOut, \* slottable: the arguments and the result of the latest call
  world,        \* repeated useSlot: the heap as the calls since the first left it
  between,      \* repeated useSlot: the calls made since the first, with results
  pairAgain     \* repeated useSlot: the outcome of the call with the same inputs

slotVars == <<called, name, slots, slotProps, options, memoSlot, memoWrapped, returned, out>>

mergeVars == <<heap, inputs, acc, idx, pc, snap, accBefore>>

clsxVars == <<clsxHeap, clsxInputs, clsxAcc, clsxIdx, clsxPc>>

pairVars == <<pairPc, pairName, pairParams, pairBefore, pairHeap, pairResult>>

apiVars == <<slotSite, slotOut, slottableOut>>

repeatVars == <<world, between, pairAgain>>

vars == <<slotVars, mergeVars, clsxVars, pairVars, apiVars, repeatVars>>

(***************************************************************************)
(* Bounds of the model.                                                    *)
(***************************************************************************)
\* Number of object identities the model can tell apart at one time.
NumIds == 4

\* The longest argument list mergeProps is called with.
MaxArgs == 3

\* The longest function name and display name slottable is called with.
MaxNameLen == 3

\* The most calls made between a call of the paired useSlot and its repetition.
MaxBetween == 2

(***************************************************************************)
(* JavaScript values of the useSlot machine.                               *)
(***************************************************************************)
\* The JavaScript value undefined, where a string stands for it.
U == "undefined"

\* Slot names a component invocation resolves.
Names == {"root", "header"}

\* Prop keys carried by call-time props and extra props.
Keys == {"id", "children"}

\* Prop keys carried by slotProps entries.
EntryKeys == {"id"}

\* All partial maps from the keys ks to the values vs.
PartialMaps(ks, vs) == UNION {[d -> vs] : d \in SUBSET ks}

EmptyMap == [k \in {} |-> U]

\* Object identities; 0 is kept for "no object" (undefined).
Ids == 1..NumIds

\* An object is its identity and its (immutable) content.
Obj(i, c) == [id |-> i, v |-> c]

\* An argument that was not supplied (undefined).
NoObj == [id |-> 0, v |-> EmptyMap]

\* The identity a fresh allocation gets: one that no live object has. Identities
\* are only ever compared with those of objects held in the same position, so
\* `used` lists the live objects of that position.
Fresh(used) == CHOOSE i \in Ids : i \notin used /\ \A j \in Ids \ used : i <= j

\* obj?.[key]: undefined when the object or the entry is absent.
OptGet(obj, key, dflt) == IF key \in DOMAIN obj.v THEN obj.v[key] ELSE dflt

(***************************************************************************)
(* src/src/use-slot.tsx, the hook of lines 99-133.                         *)
(***************************************************************************)
\* The pass-through renderable: it renders only its children.
SlotFragment == "SlotFragment"

\* options destructuring `{ slot, ...extraProps } = {}`: the default renderable.
OptionsSlot(o) == IF "slot" \in DOMAIN o.v THEN o.v["slot"] ELSE U

\* options destructuring: the content of the rest object extraProps.
RestOf(o) == [k \in (DOMAIN o.v) \ {"slot"} |-> o.v[k]]

\* a ?? b
Nullish(a, b) == IF a = U THEN b ELSE a

\* A resolution that lets the default renderable win over the consumer's override.
ResolveSlot_DefaultFirst(s, n, slot) ==
  Nullish(Nullish(slot, OptGet(s, n, U)), SlotFragment)

\* slots?.[name] ?? slot ?? SlotFragment
ResolveSlot(s, n, slot) == Nullish(Nullish(OptGet(s, n, U), slot), SlotFragment)

\* A dependency list that leaves out `slots`.
SlotDeps_NoSlots(n, s, slot) == <<n, 0, slot>>

\* The dependency list of the first useMemo: [name, slots, slot].
SlotDeps(n, s, slot) == <<n, s.id, slot>>

\* The dependency list of the second useMemo: [Slot, name, slotProps, extraProps].
WrappedDeps(S, n, sp, extraProps) == <<S, n, sp.id, extraProps.id>>

\* An unset useMemo cell.
NoMemo == [set |-> FALSE]

\* React.useMemo: the cached value while every dependency is Object.is-equal
\* to the stored one, else the newly computed value, stored with its deps.
UseMemo(cell, deps, compute) ==
  IF cell.set /\ cell.deps = deps
    THEN cell
    ELSE [set |-> TRUE, deps |-> deps, value |-> compute]

\* Object spread { ...a, ...b }: own keys of b override those of a.
Spread(a, b) ==
  [k \in (DOMAIN a) \cup (DOMAIN b) |-> IF k \in DOMAIN b THEN b[k] ELSE a[k]]

\* A spread that merges the nested style maps key by key.
Spread_DeepStyle(a, b) ==
  [k \in (DOMAIN a) \cup (DOMAIN b) |->
     IF k \in DOMAIN b
       THEN IF k = "style" /\ k \in DOMAIN a THEN Spread(a[k], b[k]) ELSE b[k]
       ELSE a[k]]

\* A merge that goes into the nested style maps.
MergedProps_DeepStyle(wrappedProps, entry, extraProps) ==
  Spread_DeepStyle(Spread_DeepStyle(wrappedProps, entry), extraProps)

\* A merge in which the call-time props override the slotProps entry.
MergedProps_CallOverEntry(wrappedProps, entry, extraProps) ==
  Spread(Spread(entry, wrappedProps), extraProps)

\* { ...wrappedProps, ...slotProps?.[name], ...extraProps }
MergedProps(wrappedProps, entry, extraProps) ==
  Spread(Spread(wrappedProps, entry), extraProps)

\* A React element <type {...props} />.
Element(type, props) == [type |-> type, props |-> props]

\* An empty render result (null).
Null == [type |-> "null", props |-> EmptyMap]

\* A pass-through that hands every prop it receives on to the fragment.
SlotFragmentRender_AllProps(props) == Element("Fragment", props)

\* SlotFragment({ children }) returns <>{children}</>: only `children` is read.
SlotFragmentRender(props) ==
  Element("Fragment",
          [k \in {"children"} |-> IF k \in DOMAIN props THEN props[k] ELSE U])

\* What React shows for an element: the pass-through is rendered by calling it;
\* any other renderable belongs to the consumer and stays an opaque element.
Rendered(el) == IF el.type = SlotFragment THEN SlotFragmentRender(el.props) ELSE el

\* No callback has been invoked in this render pass.
NoOut == [variant |-> "none"]

\* WrappedComponent(wrappedProps), for the closure w the hook returned.
WrappedComponent(w, wrappedProps) ==
  Element(w.Slot,
          MergedProps(wrappedProps, OptGet(w.slotProps, w.name, EmptyMap), w.extraProps.v))

\* Live identities, by the position that holds them.
LiveSlots == {slots.id} \cup (IF memoSlot.set THEN {memoSlot.deps[2]} ELSE {})

LiveSlotProps ==
  {slotProps.id}
    \cup (IF memoWrapped.set
            THEN {memoWrapped.deps[3], memoWrapped.value.slotProps.id}
            ELSE {})

LiveOptions == {options.id}

\* The hook state of one call site: its two useMemo cells and what the latest
\* call there returned.
Site(ms, mw, r) == [memoSlot |-> ms, memoWrapped |-> mw, returned |-> r]

\* A call site at which the hook has not been called yet.
NoSite == Site(NoMemo, NoMemo, [id |-> 0])

\* The extraProps objects and the callbacks a call site keeps alive.
SiteExtraProps(site) ==
  IF site.memoWrapped.set
    THEN {site.memoWrapped.deps[4], site.memoWrapped.value.extraProps.id}
    ELSE {}

SiteCallbacks(site) ==
  {site.returned.id}
    \cup (IF site.memoWrapped.set THEN {site.memoWrapped.value.id} ELSE {})

\* The second useMemo of the hook, given the renderable S the first one yielded.
UseMemoWrapped(site, S, n, sp, extraProps) ==
  UseMemo(site.memoWrapped, WrappedDeps(S, n, sp, extraProps),
          [id |-> Fresh(SiteCallbacks(site)), Slot |-> S, name |-> n,
           slotProps |-> sp, extraProps |-> extraProps])

\* The body of useSlot after its first useMemo yielded the cell ms.
useSlotFrom(site, ms, n, sp, extraProps) ==
  Site(ms, UseMemoWrapped(site, ms.value, n, sp, extraProps),
       UseMemoWrapped(site, ms.value, n, sp, extraProps).value)

\* useSlot(n, {slots: s, slotProps: sp}, o) called at a call site in state
\* `site`: the state of the call site after the call.
useSlotAt(site, n, s, sp, o) ==
  useSlotFrom(site,
              UseMemo(site.memoSlot, SlotDeps(n, s, OptionsSlot(o)),
                      ResolveSlot(s, n, OptionsSlot(o))),
              n, sp, Obj(Fresh(SiteExtraProps(site)), RestOf(o)))

\* useSlot(n, {slots: s, slotProps: sp}, o): one call of the hook at the call site.
useSlot(n, s, sp, o) ==
  \E r \in {useSlotAt(Site(memoSlot, memoWrapped, returned), n, s, sp, o)} :
     /\ called' = TRUE
     /\ name' = n
     /\ slots' = s
     /\ slotProps' = sp
     /\ options' = o
     /\ memoSlot' = r.memoSlot
     /\ memoWrapped' = r.memoWrapped
     /\ returned' = r.returned
     /\ out' = NoOut
     /\ UNCHANGED <<mergeVars, clsxVars, pairVars, apiVars, repeatVars>>

(***************************************************************************)
(* The render-function variant of useSlot (Shape A): a callback that       *)
(* yields nothing when no renderable is resolved.                          *)
(***************************************************************************)
\* A resolution that falls back to the pass-through renderable.
ResolveRenderable_Fragment(s, n, o) == ResolveSlot(s, n, OptionsSlot(o))

\* slots entry, else the options' default renderable, else no renderable.
ResolveRenderable(s, n, o) == Nullish(OptGet(s, n, U), OptionsSlot(o))

\* The callback of useSlot(n, {slots: s, slotProps: sp}, o) invoked with callProps.
RenderSlot(n, s, sp, o, callProps) ==
  IF ResolveRenderable(s, n, o) = U
    THEN Null
    ELSE Element(ResolveRenderable(s, n, o),
                 MergedProps(callProps, OptGet(sp, n, EmptyMap), RestOf(o)))

(***************************************************************************)
(* src/src/slot.tsx: the Slot component, a JSX front end of the hook.      *)
(***************************************************************************)
\* The props of a Slot element: name, parentProps ({slots, slotProps}), default,
\* children and the rest props.
SlotElementProps(n, s, sp, d, ch, rest) ==
  [name |-> n, slots |-> s, slotProps |-> sp, default |-> d, children |-> ch,
   rest |-> rest]

\* Slot has not been rendered yet.
NoSlotOut == [rendered |-> FALSE]

\* An options object that never carries the default renderable.
SlotOptions_NoDefault(defaultSlot) == EmptyMap

\* const options = defaultSlot ? { slot: defaultSlot } : {}
SlotOptions(defaultSlot) == IF defaultSlot # U THEN [slot |-> defaultSlot] ELSE EmptyMap

\* Call-time props that leave the children out.
SlotCallProps_NoChildren(rest, children) == rest

\* { ...slotProps, children }: the rest props, then the children key.
SlotCallProps(rest, children) == Spread(rest, [children |-> children])

\* Slot(props) at a call site in state `site`: the state of the call site after
\* the render and the element renderSlot({...slotProps, children}) returned.
Slot(site, p) ==
  [site |-> useSlotAt(site, p.name, p.slots, p.slotProps, Obj(1, SlotOptions(p.default))),
   el |-> WrappedComponent(
            useSlotAt(site, p.name, p.slots, p.slotProps,
                      Obj(1, SlotOptions(p.default))).returned,
            SlotCallProps(p.rest, p.children))]

(***************************************************************************)
(* JavaScript values and the object heap of the mergeProps machine.        *)
(***************************************************************************)
\* A value is a primitive, a function (known by its identity x) or a
\* reference to the heap object at address x.
UndefV == [t |-> "undef", x |-> 0]
NullV == [t |-> "null", x |-> 0]
Num(n) == [t |-> "num", x |-> n]
Str(s) == [t |-> "str", x |-> s]
Fn(f) == [t |-> "fn", x |-> f]
Ref(a) == [t |-> "ref", x |-> a]
BoolV(b) == [t |-> "bool", x |-> b]
NaNV == [t |-> "nan", x |-> 0]
InfinityV == [t |-> "inf", x |-> 0]
NegZeroV == [t |-> "negzero", x |-> 0]

\* The kinds of values that are not heap objects.
PrimTags == {"undef", "null", "num", "str", "fn", "bool", "nan", "inf", "negzero"}

\* A heap object: a plain map (keys in insertion order, with their values), an
\* array (vals), a Date or a RegExp (stamp is its time value or its pattern).
HeapObj(kind, keys, vals, stamp) ==
  [kind |-> kind, keys |-> keys, vals |-> vals, stamp |-> stamp]

\* The object literal {}.
EmptyObject == HeapObj("map", <<>>, <<>>, 0)

\* typeof v
TypeOf(v) ==
  CASE v.t = "undef" -> "undefined"
    [] v.t \in {"num", "nan", "inf", "negzero"} -> "number"
    [] v.t = "bool" -> "boolean"
    [] v.t = "str" -> "string"
    [] v.t = "fn" -> "function"
    [] OTHER -> "object"

\* Array.isArray(v)
IsArray(h, v) == v.t = "ref" /\ h[v.x].kind = "array"

\* v is a reference to a plain map (an object literal).
IsMapObj(h, v) == v.t = "ref" /\ h[v.x].kind = "map"

\* An isPlainObject that accepts every non-null object.
IsPlainObject_AnyObject(h, v) == v.t = "ref"

\* isPlainObject(v): an object whose prototype is Object.prototype (or null),
\* with neither Symbol.toStringTag nor Symbol.iterator: an array, a Date and
\* a RegExp are not plain.
IsPlainObject(h, v) == v.t = "ref" /\ h[v.x].kind = "map"

\* The position of key k among keys, 0 when it is not an own key.
IndexOf(keys, k) ==
  IF \E i \in 1..Len(keys) : keys[i] = k
    THEN CHOOSE i \in 1..Len(keys) : keys[i] = k
    ELSE 0

\* The property names of array indices.
IndexKeys == <<"0", "1", "2">>

\* The own enumerable keys of the object v refers to: the keys of a plain
\* map, the indices of an array; a Date and a RegExp have none.
OwnKeys(h, v) ==
  IF IsMapObj(h, v)
    THEN h[v.x].keys
    ELSE IF IsArray(h, v)
      THEN [i \in 1..Len(h[v.x].vals) |-> IndexKeys[i]]
      ELSE <<>>

\* The keys a for-in loop over v visits (none for null).
ForInKeys(h, v) == IF v.t = "ref" THEN OwnKeys(h, v) ELSE <<>>

\* v[k]: undefined when k is not an own key of v.
GetProp(h, v, k) ==
  IF v.t = "ref" /\ IndexOf(OwnKeys(h, v), k) > 0
    THEN h[v.x].vals[IndexOf(OwnKeys(h, v), k)]
    ELSE UndefV

\* acc[k] = v on the plain map at address a: an existing key keeps its place.
SetProp(h, a, k, v) ==
  LET i == IndexOf(h[a].keys, k)
  IN IF i > 0
       THEN [h EXCEPT ![a].vals[i] = v]
       ELSE [h EXCEPT ![a].keys = Append(@, k), ![a].vals = Append(@, v)]

\* The outcome of a step that may throw: the heap, a value, and whether it
\* completed (ok) or threw.
Outcome(h, v, ok) == [h |-> h, v |-> v, ok |-> ok]

RECURSIVE StructuredClone(_, _)
RECURSIVE CloneAll(_, _, _)

\* structuredClone of the values vals, one after the other; done holds the
\* clones made so far.
CloneAll(h, vals, done) ==
  IF Len(done) = Len(vals)
    THEN [h |-> h, vals |-> done, ok |-> TRUE]
    ELSE LET r == StructuredClone(h, vals[Len(done) + 1])
         IN IF r.ok
              THEN CloneAll(r.h, vals, Append(done, r.v))
              ELSE [h |-> r.h, vals |-> done, ok |-> FALSE]

\* structuredClone(v): a primitive is itself; an array, plain map, Date or
\* RegExp is copied into a new object with cloned content; a function cannot
\* be cloned (DataCloneError).
StructuredClone(h, v) ==
  IF v.t = "fn"
    THEN Outcome(h, v, FALSE)
    ELSE IF v.t # "ref"
      THEN Outcome(h, v, TRUE)
      ELSE LET r == CloneAll(h, h[v.x].vals, <<>>)
           IN IF r.ok
                THEN Outcome(Append(r.h, [h[v.x] EXCEPT !.vals = r.vals]),
                             Ref(Len(r.h) + 1), TRUE)
                ELSE Outcome(r.h, v, FALSE)

(***************************************************************************)
(* mergeProps (src/unnamed/part_000, lines 35-64).                         *)
(***************************************************************************)
RECURSIVE MergeProps(_, _)
RECURSIVE Reduce(_, _, _, _)
RECURSIVE ForIn(_, _, _, _)

\* A reduce that accumulates into its first input when that is a plain map.
InitialAcc_FirstInput(h, ins) ==
  IF IsMapObj(h, ins[1])
    THEN [h |-> h, a |-> ins[1].x]
    ELSE [h |-> Append(h, EmptyObject), a |-> Len(h) + 1]

\* `const initial = {}`: the accumulator is a new object literal, at address a.
InitialAcc(h, ins) == [h |-> Append(h, EmptyObject), a |-> Len(h) + 1]

\* A reduce callback that skips only what is not an object.
SkipsInput_NoArrayCheck(h, input) == TypeOf(input) # "object"

\* Whether the reduce callback returns acc at once for this input.
SkipsInput(h, input) == TypeOf(input) # "object" \/ IsArray(h, input)

\* A recursive call that forgets the accumulated value: mergeProps(input[prop]).
MergeArgs_InputOnly(h, a, prop, v) == <<v>>

\* The arguments of the recursive call: mergeProps(acc[prop], input[prop]).
MergeArgs(h, a, prop, v) == <<GetProp(h, Ref(a), prop), v>>

\* acc[prop] = mergeProps(acc[prop], input[prop])
AssignMerged(h, a, prop, v) ==
  LET r == MergeProps(h, MergeArgs(h, a, prop, v))
  IN IF r.ok
       THEN Outcome(SetProp(r.h, a, prop, r.v), Ref(a), TRUE)
       ELSE Outcome(r.h, Ref(a), FALSE)

\* acc[prop] = input[prop], for a function.
AssignFunction(h, a, prop, v) == Outcome(SetProp(h, a, prop, v), Ref(a), TRUE)

\* An assignment that leaves the key alone when the source value is undefined.
AssignClone_SkipUndefined(h, a, prop, v) ==
  IF v = UndefV
    THEN Outcome(h, Ref(a), TRUE)
    ELSE LET r == StructuredClone(h, v)
         IN IF r.ok
              THEN Outcome(SetProp(r.h, a, prop, r.v), Ref(a), TRUE)
              ELSE Outcome(r.h, Ref(a), FALSE)

\* An assignment that stores the source value itself, whatever it is.
AssignClone_ByReference(h, a, prop, v) == Outcome(SetProp(h, a, prop, v), Ref(a), TRUE)

\* acc[prop] = structuredClone(input[prop])
AssignClone(h, a, prop, v) ==
  LET r == StructuredClone(h, v)
  IN IF r.ok
       THEN Outcome(SetProp(r.h, a, prop, r.v), Ref(a), TRUE)
       ELSE Outcome(r.h, Ref(a), FALSE)

\* The body of the for-in loop for one key of the input.
ForInBody(h, a, prop, v) ==
  IF IsPlainObject(h, v) /\ ~IsArray(h, v)
    THEN AssignMerged(h, a, prop, v)
    ELSE IF TypeOf(v) = "function"
      THEN AssignFunction(h, a, prop, v)
      ELSE AssignClone(h, a, prop, v)

\* `for (const prop in input)` from the j-th key on, on the accumulator at
\* address a.
ForIn(h, a, input, j) ==
  IF j > Len(ForInKeys(h, input))
    THEN Outcome(h, Ref(a), TRUE)
    ELSE LET prop == ForInKeys(h, input)[j]
             r == ForInBody(h, a, prop, GetProp(h, input, prop))
         IN IF r.ok THEN ForIn(r.h, a, input, j + 1) ELSE r

\* One call of the reduce callback: fold input into the accumulator at a.
ReduceStep(h, a, input) ==
  IF SkipsInput(h, input)
    THEN Outcome(h, Ref(a), TRUE)
    ELSE ForIn(h, a, input, 1)

\* inputs.reduce(callback, initial) from the i-th input on.
Reduce(h, a, ins, i) ==
  IF i > Len(ins)
    THEN Outcome(h, Ref(a), TRUE)
    ELSE LET r == ReduceStep(h, a, ins[i])
         IN IF r.ok THEN Reduce(r.h, a, ins, i + 1) ELSE r

\* mergeProps(...ins) run to completion (the form the recursive calls take).
MergeProps(h, ins) ==
  IF Len(ins) = 0
    THEN Outcome(Append(h, EmptyObject), Ref(Len(h) + 1), TRUE)
    ELSE Reduce(InitialAcc(h, ins).h, InitialAcc(h, ins).a, ins, 1)

(***************************************************************************)
(* Values written as literals (trees), and their loading into the heap.    *)
(***************************************************************************)
\* A literal: t is the kind, x a primitive's payload (or a Date's time, a
\* function's identity), keys and kids the keys and members of a map or array.
Tree(t, x, keys, kids) == [t |-> t, x |-> x, keys |-> keys, kids |-> kids]

NoTree == Tree("none", 0, <<>>, <<>>)
TPrim(v) == Tree(v.t, v.x, <<>>, <<>>)
TDate(s) == Tree("date", s, <<>>, <<>>)
TRegex(s) == Tree("regexp", s, <<>>, <<>>)
TArr(kids) == Tree("array", 0, <<>>, kids)
TMap(keys, kids) == Tree("map", 0, keys, kids)

RECURSIVE Load(_, _)
RECURSIVE LoadAll(_, _, _)

\* Evaluate the literals kids one after the other; done holds their values.
LoadAll(h, kids, done) ==
  IF Len(done) = Len(kids)
    THEN [h |-> h, vals |-> done]
    ELSE LET r == Load(h, kids[Len(done) + 1])
         IN LoadAll(r.h, kids, Append(done, r.v))

\* Evaluate a literal: its objects are allocated on the heap.
Load(h, tr) ==
  IF tr.t \in PrimTags
    THEN [h |-> h, v |-> [t |-> tr.t, x |-> tr.x]]
    ELSE LET r == LoadAll(h, tr.kids, <<>>)
         IN [h |-> Append(r.h, HeapObj(tr.t, tr.keys, r.vals, tr.x)),
             v |-> Ref(Len(r.h) + 1)]

RECURSIVE TreeOf(_, _)

\* The literal that denotes the value v of heap h (its structure by value).
TreeOf(h, v) ==
  IF v.t # "ref"
    THEN TPrim(v)
    ELSE Tree(h[v.x].kind, h[v.x].stamp, h[v.x].keys,
              [i \in 1..Len(h[v.x].vals) |-> TreeOf(h, h[v.x].vals[i])])

(***************************************************************************)
(* clsx (src/src/clsx.ts).                                                 *)
(***************************************************************************)
\* Boolean(v): false for undefined, null, false, 0, -0, NaN and "".
Truthy(v) ==
  ~ \/ v.t \in {"undef", "null", "nan", "negzero"}
    \/ (v.t = "bool" /\ ~v.x)
    \/ (v.t = "num" /\ v.x = 0)
    \/ (v.t = "str" /\ v.x = "")

\* The decimal digits.
Digits == <<"0", "1", "2", "3", "4", "5", "6", "7", "8", "9">>

RECURSIVE NatToString(_)

\* The decimal numeral of a natural number.
NatToString(n) ==
  IF n < 10
    THEN Digits[n + 1]
    ELSE NatToString(n \div 10) \o Digits[(n % 10) + 1]

\* `${input}` for a string or a number.
TemplateString(v) ==
  CASE v.t = "str" -> v.x
    [] v.t = "num" -> IF v.x < 0 THEN "-" \o NatToString(0 - v.x) ELSE NatToString(v.x)
    [] v.t = "nan" -> "NaN"
    [] v.t = "inf" -> "Infinity"
    [] v.t = "negzero" -> "0"

\* A concat that always puts the separator.
Concat_AlwaysSpace(a, b) == a \o " " \o b

\* concat(a, b): [a, b].filter(Boolean).join(" "), for two strings.
Concat(a, b) ==
  IF a = "" THEN b ELSE IF b = "" THEN a ELSE a \o " " \o b

\* A spread that passes on only the first element of the array.
SpreadArray_FirstOnly(h, input) ==
  IF Len(h[input.x].vals) = 0 THEN <<>> ELSE <<h[input.x].vals[1]>>

\* `...input` for an array: its elements, in order.
SpreadArray(h, input) == h[input.x].vals

\* A test of a map value that takes only the boolean true.
KeyIncluded_OnlyTrue(h, input, className) ==
  GetProp(h, input, className) = BoolV(TRUE)

\* `if (input[className])`: the key's value is truthy.
KeyIncluded(h, input, className) == Truthy(GetProp(h, input, className))

RECURSIVE clsx(_, _)
RECURSIVE castValue(_, _)
RECURSIVE CastKeys(_, _, _, _)
RECURSIVE ClsxReduce(_, _, _, _)

\* A castValue that also turns the boolean true into text.
castValue_BooleanAsText(h, input) ==
  IF TypeOf(input) \in {"string", "number"}
    THEN TemplateString(input)
    ELSE IF TypeOf(input) = "boolean"
      THEN "true"
      ELSE IF IsArray(h, input)
        THEN clsx(h, SpreadArray(h, input))
        ELSE IF TypeOf(input) = "object"
          THEN CastKeys(h, input, 1, "")
          ELSE ""

\* A join that keeps the empty contributions.
ClsxStep_KeepEmpty(h, accStr, input) ==
  IF Truthy(input)
    THEN IF accStr = "" THEN castValue(h, input) ELSE accStr \o " " \o castValue(h, input)
    ELSE accStr

\* The for-in loop of castValue from the j-th key on, res being the string
\* built so far.
CastKeys(h, input, j, res) ==
  IF j > Len(ForInKeys(h, input))
    THEN res
    ELSE LET className == ForInKeys(h, input)[j]
         IN IF KeyIncluded(h, input, className)
              THEN CastKeys(h, input, j + 1, Concat(res, clsx(h, <<Str(className)>>)))
              ELSE CastKeys(h, input, j + 1, res)

\* castValue(input): a string or number as text, an array through clsx of its
\* elements, any other object through its keys with a truthy value, else "".
castValue(h, input) ==
  IF TypeOf(input) \in {"string", "number"}
    THEN TemplateString(input)
    ELSE IF IsArray(h, input)
      THEN clsx(h, SpreadArray(h, input))
      ELSE IF TypeOf(input) = "object"
        THEN CastKeys(h, input, 1, "")
        ELSE ""

\* The reduce callback of clsx: acc after folding input in.
ClsxStep(h, accStr, input) ==
  IF Truthy(input) THEN Concat(accStr, castValue(h, input)) ELSE accStr

\* inputs.reduce(callback, "") from the i-th input on.
ClsxReduce(h, ins, i, accStr) ==
  IF i > Len(ins)
    THEN accStr
    ELSE ClsxReduce(h, ins, i + 1, ClsxStep(h, accStr, ins[i]))

\* clsx(...ins)
clsx(h, ins) == ClsxReduce(h, ins, 1, "")

(***************************************************************************)
(* The paired useSlot (src/unnamed/part_005, lines 28-133).                *)
(***************************************************************************)
\* The default class name merger: it returns its argument.
merger == Fn(0)

\* A merger as in the tests: (className) => `${className} merged-class`.
suffixMerger == Fn(1)

\* A call of a class name merger on the string s.
CallMergeFn(f, s) == IF f = merger THEN s ELSE s \o " merged-class"

\* A destructuring default `x = dflt`: taken when the property is undefined.
OrDefault(v, dflt) == IF v = UndefV THEN dflt ELSE v

\* a ?? b, on values.
NullishV(a, b) == IF a.t \in {"undef", "null"} THEN b ELSE a

\* obj?.[k]
OptChain(h, obj, k) == IF obj.t \in {"undef", "null"} THEN UndefV ELSE GetProp(h, obj, k)

\* The object literal { [name]: undefined }.
NameUndefined(n) == HeapObj("map", <<n>>, <<UndefV>>, 0)

\* A computed property key: the string of the value.
ToPropertyKey(v) ==
  CASE v.t = "undef" -> "undefined"
    [] v.t = "null" -> "null"
    [] OTHER -> TemplateString(v)

\* A rest element that collects every own key, the picked ones included.
RestKeys_All(h, v, picked) == OwnKeys(h, v)

\* The keys a rest element collects: the own keys that were not picked.
RestKeys(h, v, picked) == SelectSeq(OwnKeys(h, v), LAMBDA k : k \notin picked)

\* `{ component, slots, slotProps, ...other } = inProps`: the object other.
RestObject(h, v, picked) ==
  HeapObj("map", RestKeys(h, v, picked),
          [i \in 1..Len(RestKeys(h, v, picked)) |-> GetProp(h, v, RestKeys(h, v, picked)[i])],
          0)

RECURSIVE SpreadInto(_, _, _, _)

\* `...src` inside an object literal at address a, from the j-th key of src on
\* (null and undefined spread nothing).
SpreadInto(h, a, src, j) ==
  IF j > Len(ForInKeys(h, src))
    THEN h
    ELSE SpreadInto(SetProp(h, a, ForInKeys(h, src)[j], GetProp(h, src, ForInKeys(h, src)[j])),
                    a, src, j + 1)

\* A destructuring of props.slots without a default.
SlotsOrDefault_NoDefault(inSlots, dflt) == inSlots

\* `slots = { [name]: undefined }` in the destructuring of inProps; dflt is
\* the object of the default.
SlotsOrDefault(inSlots, dflt) == OrDefault(inSlots, dflt)

\* A resolution that looks at props.slots before props.component.
resolveComponentElement_SlotsFirst(h, n, rootComponent, slotsV, defaultComponent) ==
  IF Truthy(GetProp(h, slotsV, n))
    THEN GetProp(h, slotsV, n)
    ELSE IF n = "root" /\ Truthy(rootComponent)
      THEN rootComponent
      ELSE defaultComponent

\* resolveComponentElement(): props.component for "root", else slots[name],
\* else the default component.
resolveComponentElement(h, n, rootComponent, slotsV, defaultComponent) ==
  IF n = "root" /\ Truthy(rootComponent)
    THEN rootComponent
    ELSE IF Truthy(GetProp(h, slotsV, n))
      THEN GetProp(h, slotsV, n)
      ELSE defaultComponent

\* Arguments of clsx in which the slotProps entry comes before the extra props.
ClsxArgs_EntryBeforeExtra(h, n, className, own, inProps, extraProps, slotPropsV) ==
  <<NullishV(className, Str("")),
    own,
    OptChain(h, GetProp(h, slotPropsV, n), "className"),
    NullishV(OptChain(h, extraProps, "className"), BoolV(FALSE))>>

\* The arguments of clsx in slotClassName; own is the object
\* { [inProps.className]: name === "root" && !!inProps.className }.
ClsxArgs(h, n, className, own, inProps, extraProps, slotPropsV) ==
  <<NullishV(className, Str("")),
    own,
    NullishV(OptChain(h, extraProps, "className"), BoolV(FALSE)),
    OptChain(h, GetProp(h, slotPropsV, n), "className")>>

\* The object { [inProps.className]: name === "root" && !!inProps.className }.
OwnClassName(h, n, inProps) ==
  HeapObj("map", <<ToPropertyKey(GetProp(h, inProps, "className"))>>,
          <<BoolV(n = "root" /\ Truthy(GetProp(h, inProps, "className")))>>, 0)

\* Arguments of mergeProps that start from the consumer's props for every slot.
MergeInputs_OtherForAll(n, other, empty, extraProps, entry, classObj) ==
  <<other, extraProps, entry, classObj>>

\* Arguments of mergeProps in which the extra props come after the slotProps entry.
MergeInputs_ExtraLast(n, other, empty, extraProps, entry, classObj) ==
  <<IF n = "root" THEN other ELSE empty, entry, extraProps, classObj>>

\* The arguments of mergeProps: root props, extraProps, slotProps[name] and
\* the className object.
MergeInputs(n, other, empty, extraProps, entry, classObj) ==
  <<IF n = "root" THEN other ELSE empty, extraProps, entry, classObj>>

\* A ref that goes through the clone of the merge.
AssignRef_Cloned(h, a, ref) ==
  SetProp(StructuredClone(h, ref).h, a, "ref", StructuredClone(h, ref).v)

\* Object.assign(merged, { ref }): the handle is assigned as it is.
AssignRef(h, a, ref) == SetProp(h, a, "ref", ref)

\* No call has returned.
NoResult == [component |-> UndefV, props |-> UndefV]

\* The two destructurings at the top of useSlot. The objects the call creates
\* get the addresses after those of h: the two defaults { [name]: undefined },
\* slotProps, other, the class map, {} and the className object.
Destructure(h, n, params) ==
  [className |-> GetProp(h, params, "className"),
   defaultComponent |-> GetProp(h, params, "component"),
   ref |-> GetProp(h, params, "ref"),
   inProps |-> GetProp(h, params, "props"),
   extraProps |-> GetProp(h, params, "extraProps"),
   classNameMergeFn |-> OrDefault(GetProp(h, params, "classNameMergeFn"), merger),
   rootComponent |-> GetProp(h, GetProp(h, params, "props"), "component"),
   slots |-> SlotsOrDefault(GetProp(h, GetProp(h, params, "props"), "slots"), Ref(Len(h) + 1)),
   inSlotProps |-> OrDefault(GetProp(h, GetProp(h, params, "props"), "slotProps"),
                             Ref(Len(h) + 2)),
   slotProps |-> Ref(Len(h) + 3),
   other |-> Ref(Len(h) + 4),
   own |-> Ref(Len(h) + 5),
   empty |-> Ref(Len(h) + 6),
   classObj |-> Ref(Len(h) + 7)]

\* The heap once slotProps = { [name]: undefined, ...inSlotProps }, other,
\* the class map and {} are made.
HeapBeforeMerge(h, n, d) ==
  LET defaults == h \o <<NameUndefined(n), NameUndefined(n)>>
      spread == SpreadInto(Append(defaults, NameUndefined(n)), d.slotProps.x, d.inSlotProps, 1)
  IN spread \o <<RestObject(h, d.inProps, {"component", "slots", "slotProps"}),
                 OwnClassName(h, n, d.inProps),
                 EmptyObject>>

\* slotClassName = classNameMergeFn(clsx(...))
SlotClassName(h, n, d) ==
  CallMergeFn(d.classNameMergeFn,
              clsx(h, ClsxArgs(h, n, d.className, d.own, d.inProps, d.extraProps, d.slotProps)))

\* slotClassName ? { className: slotClassName } : {}
ClassNameObject(slotClassName) ==
  IF slotClassName # ""
    THEN HeapObj("map", <<"className">>, <<Str(slotClassName)>>, 0)
    ELSE EmptyObject

\* Object.assign(merged, { ref }), for the outcome of the call of mergeProps.
AssignOutcome(merged, ref) ==
  IF merged.ok
    THEN [h |-> AssignRef(merged.h, merged.v.x, ref), ok |-> TRUE, props |-> merged.v]
    ELSE [h |-> merged.h, ok |-> FALSE, props |-> UndefV]

\* Object.assign(mergeProps(...), { ref }) on the heap h, which holds every
\* object made before the merge.
MergeAndAssign(h, n, d) ==
  AssignOutcome(MergeProps(Append(h, ClassNameObject(SlotClassName(h, n, d))),
                           MergeInputs(n, d.other, d.empty, d.extraProps,
                                       GetProp(h, d.slotProps, n), d.classObj)),
                d.ref)

\* The end of the call: reading slots[name] throws a TypeError when slots is
\* undefined, a throwing mergeProps ends the call, else the pair is returned.
useSlotReturn(h, n, d, m) ==
  IF d.slots.t # "ref"
    THEN [h |-> h, ok |-> FALSE, result |-> NoResult]
    ELSE IF ~m.ok
      THEN [h |-> m.h, ok |-> FALSE, result |-> NoResult]
      ELSE [h |-> m.h, ok |-> TRUE,
            result |-> [component |-> resolveComponentElement(h, n, d.rootComponent, d.slots,
                                                              d.defaultComponent),
                        props |-> m.props]]

\* The body of useSlot after its destructurings d, on the heap h that holds
\* the objects made before the merge.
useSlotBody(h, n, d) == useSlotReturn(h, n, d, MergeAndAssign(h, n, d))

\* useSlot(n, params): the heap after the call, whether it returned (ok) or
\* threw, and the returned [component, props].
useSlotPair(h, n, params) ==
  useSlotBody(HeapBeforeMerge(h, n, Destructure(h, n, params)), n, Destructure(h, n, params))

(***************************************************************************)
(* src/src/slottable.ts: the factory of slottable components.              *)
(***************************************************************************)
\* A render function; `name` is "" for an anonymous function.
RenderFunction(nm) == [kind |-> "function", name |-> nm]

\* forwardRef(render): the exotic component object, not yet named.
ForwardRef(render) ==
  [typeof |-> "react.forward_ref", render |-> render, displayName |-> UndefV]

\* render.name || "UnknownComponent"
RenderName(render) ==
  IF Truthy(Str(render.name)) THEN render.name ELSE "UnknownComponent"

\* A display name that falls back to the default for every falsy argument.
DisplayNameOf_OrFalsy(render, displayName) ==
  IF Truthy(displayName)
    THEN displayName
    ELSE Str("@zemd/react-slottable/" \o RenderName(render))

\* displayName ?? `@zemd/react-slottable/${render.name || "UnknownComponent"}`
DisplayNameOf(render, displayName) ==
  NullishV(displayName, Str("@zemd/react-slottable/" \o RenderName(render)))

\* slottable(render, displayName)
slottable(render, displayName) ==
  [ForwardRef(render) EXCEPT !.displayName = DisplayNameOf(render, displayName)]

\* slottable has not been called.
NoComponent == [made |-> FALSE]

\* The call of the paired useSlot has not been repeated.
NoAgain == [done |-> FALSE]

(***************************************************************************)
(* The inputs a consumer and a component author supply.                    *)
(***************************************************************************)
\* Contents of a props.slots object.
SlotsContents == PartialMaps(Names, {"A"})

\* Props with a nested style map and a className, as the call-time props, a
\* slotProps entry and the extra props carry them.
StyledCall == [children |-> "c", className |-> "c", style |-> [color |-> "c", margin |-> "c"]]

StyledEntry == [className |-> "s", style |-> [color |-> "s"]]

StyledExtra == [className |-> "e", style |-> [size |-> "e"]]

\* Contents of one slotProps entry.
EntryContents == PartialMaps(EntryKeys, {"s"}) \cup {StyledEntry}

\* Contents of a props.slotProps object.
SlotPropsContents == PartialMaps(Names, EntryContents)

\* Contents of an options object: an optional `slot` and extra props.
OptionsContents ==
  {Spread(e, d) : e \in PartialMaps(Keys, {"e"}) \cup {StyledExtra},
                  d \in PartialMaps({"slot"}, {"B"})}

\* Props a callback is invoked with.
CallProps == PartialMaps(Keys, {"c"}) \cup {StyledCall}

\* The objects a caller can pass in a position: none, or a newly made one.
NewArgs(contents, used) == {NoObj} \cup {Obj(Fresh(used), c) : c \in contents}

\* The same content in a newly made object (an object literal evaluated again).
Recreate(o, used) == IF o.id = 0 THEN NoObj ELSE Obj(Fresh(used), o.v)

(***************************************************************************)
(* The arguments a caller passes to mergeProps.                            *)
(***************************************************************************)
\* Plain-map literals over the keys "a" and "b" (in that order), the value of
\* "a" drawn from va and that of "b" from vb.
MapLits(va, vb) ==
  {TMap(<<>>, <<>>)}
    \cup {TMap(<<"a">>, <<x>>) : x \in va}
    \cup {TMap(<<"b">>, <<y>>) : y \in vb}
    \cup {TMap(<<"a", "b">>, <<x, y>>) : x \in va, y \in vb}

\* Values that are not plain maps: primitives, functions, dates, a regular
\* expression and arrays.
LeafLits ==
  {TPrim(UndefV), TPrim(NullV), TPrim(Num(1)), TPrim(Str("s")), TPrim(Fn(1)), TPrim(Fn(2)),
   TDate(1), TDate(2), TRegex(1),
   TArr(<<>>), TArr(<<TPrim(Num(1))>>), TArr(<<TPrim(Fn(1))>>),
   TArr(<<TMap(<<"a">>, <<TPrim(Num(1))>>)>>)}

\* Values held inside a nested map.
InnerVals ==
  {TPrim(Num(1)), TPrim(Num(2)), TPrim(UndefV), TPrim(Fn(1)), TArr(<<TPrim(Num(1))>>),
   TMap(<<"a">>, <<TPrim(Num(1))>>), TMap(<<"b">>, <<TPrim(Num(2))>>)}

\* Nested maps, up to two levels deep.
InnerLits == MapLits(InnerVals, {TPrim(Num(2))})

\* The maps passed as inputs.
TopLits ==
  MapLits(LeafLits \cup InnerLits, {TPrim(Num(1)), TMap(<<"a">>, <<TPrim(Num(1))>>)})

\* Everything passed as one input: a map, null, undefined, an array, a number.
InputLits ==
  TopLits \cup {TPrim(NullV), TPrim(UndefV), TArr(<<TPrim(Num(1))>>), TPrim(Num(1))}

\* The inputs of the calls with three or more arguments.
SmallLits ==
  {TPrim(UndefV), TPrim(NullV),
   TMap(<<"a">>, <<TPrim(Num(1))>>),
   TMap(<<"a">>, <<TMap(<<"a">>, <<TPrim(Num(1))>>)>>),
   TMap(<<"a">>, <<TMap(<<"b">>, <<TPrim(Num(2))>>)>>),
   TMap(<<"a", "b">>, <<TArr(<<TPrim(Num(1))>>), TPrim(UndefV)>>),
   TMap(<<"a", "b">>, <<TPrim(Fn(1)), TPrim(Num(2))>>)}

\* The argument lists of a call.
ArgLits ==
  {<<>>}
    \cup {<<x>> : x \in InputLits}
    \cup {<<x, y>> : x \in InputLits, y \in InputLits}
    \cup UNION {[1..n -> SmallLits] : n \in 3..MaxArgs}

RECURSIVE LoadArgs(_, _, _, _)

\* Evaluate the argument literals lits; when shared, an argument written like
\* an earlier one is that very object (the same variable passed twice).
LoadArgs(h, lits, done, shared) ==
  IF Len(done) = Len(lits)
    THEN [h |-> h, vals |-> done]
    ELSE LET j == Len(done) + 1
             same == {i \in 1..Len(done) : lits[i] = lits[j]}
         IN IF shared /\ same # {}
              THEN LoadArgs(h, lits, Append(done, done[CHOOSE i \in same : TRUE]), shared)
              ELSE LoadArgs(Load(h, lits[j]).h, lits, Append(done, Load(h, lits[j]).v), shared)

(***************************************************************************)
(* The arguments a caller passes to clsx.                                  *)
(***************************************************************************)
\* A string literal.
S(s) == TPrim(Str(s))

\* The falsy values: 0, -0, false, null, undefined, "" and NaN.
FalsyLits ==
  {TPrim(Num(0)), TPrim(NegZeroV), TPrim(BoolV(FALSE)), TPrim(NullV), TPrim(UndefV),
   S(""), TPrim(NaNV)}

\* Primitive arguments, falsy and truthy.
ClsxLeafLits ==
  FalsyLits \cup {S("foo"), S("a b"), S(" "), TPrim(Num(1)), TPrim(Num(12)), TPrim(InfinityV),
                  TPrim(BoolV(TRUE)), TPrim(Fn(1))}

\* Values held under the keys of a class map.
ClsxMapVals ==
  FalsyLits \cup {TPrim(BoolV(TRUE)), TPrim(Num(1)), S("hiya"), TPrim(Fn(1)),
                  TArr(<<>>), TMap(<<>>, <<>>)}

\* Class maps: over the keys "a" and "b", and the map of the compatibility test.
ClsxMapLits ==
  MapLits(ClsxMapVals, ClsxMapVals)
    \cup {TMap(<<"a", "b", "c", "d", "e", "f">>,
               <<TPrim(BoolV(TRUE)), TPrim(BoolV(FALSE)), TPrim(Num(0)), TPrim(NullV),
                 TPrim(UndefV), TPrim(Num(1))>>)}

\* Arrays, nested up to five levels.
ClsxArrLits ==
  {TArr(<<>>), TArr(<<S("a")>>), TArr(<<TArr(<<>>)>>),
   TArr(<<S("a"), TArr(<<S("b"), S("c")>>)>>),
   TArr(<<S("a"), TArr(<<S("b"), TArr(<<S("c"), TMap(<<"d">>, <<TPrim(BoolV(TRUE))>>)>>)>>)>>),
   TArr(<<TArr(<<TArr(<<S("foo")>>)>>)>>),
   TArr(<<TPrim(BoolV(TRUE)), TArr(<<TArr(<<S("foo")>>)>>)>>),
   TArr(<<S("foo"), TArr(<<S("bar"), TArr(<<S(""), TArr(<<TArr(<<S("baz")>>)>>)>>)>>)>>),
   TArr(<<S("a"), TPrim(Num(0)), TPrim(NullV), TPrim(UndefV), TPrim(BoolV(FALSE)),
          TPrim(BoolV(TRUE)), S("b")>>),
   TArr(<<S("a"), TMap(<<"b", "c">>, <<TPrim(BoolV(TRUE)), TPrim(BoolV(FALSE))>>)>>),
   TArr(<<TArr(<<TPrim(Fn(1))>>), S("world")>>)}

\* The arguments of the calls with two arguments.
ClsxPairLits ==
  ClsxLeafLits \cup ClsxArrLits
    \cup {TMap(<<>>, <<>>), TMap(<<"a">>, <<TPrim(BoolV(TRUE))>>),
          TMap(<<"a", "b">>, <<TPrim(Num(0)), TPrim(Fn(1))>>),
          TMap(<<"foo", "bar">>, <<S("hiya"), TPrim(Num(1))>>)}

\* The argument lists of a call of clsx.
ClsxArgLits ==
  {<<>>}
    \cup {<<x>> : x \in ClsxLeafLits \cup ClsxArrLits \cup ClsxMapLits}
    \cup {<<x, y>> : x \in ClsxPairLits, y \in ClsxPairLits}
    \cup {<<x, y, z>> : x \in FalsyLits, y \in FalsyLits, z \in FalsyLits}

(***************************************************************************)
(* The arguments a component author passes to the paired useSlot.          *)
(***************************************************************************)
\* The map literal of the keys whose value is supplied (not NoTree).
TMapOpt(keys, kids) ==
  LET at == SelectSeq([i \in 1..Len(kids) |-> i], LAMBDA i : kids[i] # NoTree)
  IN TMap([j \in 1..Len(at) |-> keys[at[j]]], [j \in 1..Len(at) |-> kids[at[j]]])

\* A reference handle { current: ... }.
RefLit(s) == TMap(<<"current">>, <<S(s)>>)

\* A style object.
StyleLit(keys, s) == TMap(keys, [i \in 1..Len(keys) |-> S(s)])

\* slotProps entries.
PairEntryLits ==
  {TMap(<<>>, <<>>),
   TMap(<<"className">>, <<S("sp")>>),
   TMap(<<"id", "style">>, <<S("sp"), StyleLit(<<"color">>, "sp")>>),
   TMap(<<"className", "ref", "id">>, <<S("sp"), RefLit("x"), S("sp")>>)}

\* props.slotProps: absent, empty, or one entry for a slot name.
PairSlotPropsLits ==
  {NoTree, TMap(<<>>, <<>>)} \cup {TMap(<<n>>, <<e>>) : n \in Names, e \in PairEntryLits}

\* props.slots: absent, or one override for a slot name.
PairSlotsLits == {NoTree} \cup {TMap(<<n>>, <<S("A")>>) : n \in Names}

\* The consumer's other top-level props: id, style and ref.
PairOtherLits ==
  {<<NoTree, NoTree, NoTree>>,
   <<S("own"), NoTree, NoTree>>,
   <<S("own"), StyleLit(<<"color", "margin">>, "own"), NoTree>>,
   <<NoTree, StyleLit(<<"color", "margin">>, "own"), RefLit("o")>>}

\* A full props object of the component.
PropsLit(c, s, sp, cn, o) ==
  TMapOpt(<<"component", "slots", "slotProps", "className", "id", "style", "ref">>,
          <<c, s, sp, cn, o[1], o[2], o[3]>>)

\* The props objects passed: every combination of component, slots and
\* className with few slotProps, and every combination of slotProps and other
\* props with no component and no slots.
PairPropsLits ==
  {PropsLit(c, s, sp, cn, <<S("own"), NoTree, NoTree>>) :
     c \in {NoTree, S("section")}, s \in PairSlotsLits,
     sp \in {NoTree, TMap(<<"root">>, <<TMap(<<"className">>, <<S("sp")>>)>>)},
     cn \in {NoTree, S(""), S("own")}}
    \cup {PropsLit(NoTree, NoTree, sp, cn, o) :
            sp \in PairSlotPropsLits, cn \in {NoTree, S("own")}, o \in PairOtherLits}

\* params.extraProps.
PairExtraLits ==
  {NoTree, TMap(<<>>, <<>>),
   TMap(<<"className">>, <<S("ex")>>),
   TMap(<<"id", "style">>, <<S("ex"), StyleLit(<<"color", "size">>, "ex")>>),
   TMap(<<"className", "id", "ref">>, <<S("ex"), S("ex"), RefLit("y")>>),
   TMap(<<"component">>, <<S("ex")>>)}

\* The params object of a call.
PairParamsLits ==
  {TMapOpt(<<"ref", "component", "props", "className", "extraProps", "classNameMergeFn">>,
           <<r, S("div"), pr, cn, ex, mf>>) :
     r \in {NoTree, RefLit("el")}, pr \in PairPropsLits, cn \in {NoTree, S("base")},
     ex \in PairExtraLits, mf \in {NoTree, TPrim(suffixMerger)}}

(***************************************************************************)
(* Actions.                                                                *)
(***************************************************************************)
Init ==
  /\ called = FALSE
  /\ name = U
  /\ slots = NoObj
  /\ slotProps = NoObj
  /\ options = NoObj
  /\ memoSlot = NoMemo
  /\ memoWrapped = NoMemo
  /\ returned = [id |-> 0]
  /\ out = NoOut
  /\ heap = <<>>
  /\ inputs = <<>>
  /\ acc = 0
  /\ idx = 0
  /\ pc = "idle"
  /\ snap = <<>>
  /\ accBefore = NoTree
  /\ clsxHeap = <<>>
  /\ clsxInputs = <<>>
  /\ clsxAcc = ""
  /\ clsxIdx = 0
  /\ clsxPc = "idle"
  /\ pairPc = "idle"
  /\ pairName = ""
  /\ pairParams = UndefV
  /\ pairBefore = <<>>
  /\ pairHeap = <<>>
  /\ pairResult = NoResult
  /\ slotSite = NoSite
  /\ slotOut = NoSlotOut
  /\ slottableOut = NoComponent
  /\ world = <<>>
  /\ between = <<>>
  /\ pairAgain = NoAgain

\* The component mounts: the first call of useSlot at the call site.
Mount ==
  /\ ~called
  /\ \E n \in Names, s \in NewArgs(SlotsContents, LiveSlots),
        sp \in NewArgs(SlotPropsContents, LiveSlotProps),
        o \in NewArgs(OptionsContents, LiveOptions) :
       useSlot(n, s, sp, o)

\* A render pass with the very same arguments as the pass before.
Rerender ==
  /\ called /\ out = NoOut
  /\ useSlot(name, slots, slotProps, options)

\* A render pass for another slot name.
RerenderName ==
  /\ called /\ out = NoOut
  /\ \E n \in Names \ {name} : useSlot(n, slots, slotProps, options)

\* A render pass in which the consumer passes another props.slots.
RerenderSlots ==
  /\ called /\ out = NoOut
  /\ \E s \in NewArgs(SlotsContents, LiveSlots) \ {slots} :
       useSlot(name, s, slotProps, options)

\* A render pass in which the consumer passes another props.slotProps.
RerenderSlotProps ==
  /\ called /\ out = NoOut
  /\ \E sp \in NewArgs(SlotPropsContents, LiveSlotProps) \ {slotProps} :
       useSlot(name, slots, sp, options)

\* A render pass in which the component author passes another options object.
RerenderOptions ==
  /\ called /\ out = NoOut
  /\ \E o \in NewArgs(OptionsContents, LiveOptions) \ {options} :
       useSlot(name, slots, slotProps, o)

\* A render pass in which every argument object is made anew with equal content.
RerenderFresh ==
  /\ called /\ out = NoOut
  /\ useSlot(name, Recreate(slots, LiveSlots), Recreate(slotProps, LiveSlotProps),
             Recreate(options, LiveOptions))

\* React renders the component the hook returned, with props callProps.
Invoke ==
  /\ called /\ out = NoOut
  /\ \E cp \in CallProps :
       out' = [variant |-> "component", callProps |-> cp,
               el |-> WrappedComponent(returned, cp),
               rendered |-> Rendered(WrappedComponent(returned, cp))]
  /\ UNCHANGED <<called, name, slots, slotProps, options, memoSlot, memoWrapped, returned>>
  /\ UNCHANGED <<mergeVars, clsxVars, pairVars, apiVars, repeatVars>>

\* The render-function callback for the latest call's arguments is invoked.
InvokeRender ==
  /\ called /\ out = NoOut
  /\ \E cp \in CallProps :
       out' = [variant |-> "render", callProps |-> cp,
               el |-> RenderSlot(name, slots, slotProps, options, cp),
               rendered |-> Rendered(RenderSlot(name, slots, slotProps, options, cp))]
  /\ UNCHANGED <<called, name, slots, slotProps, options, memoSlot, memoWrapped, returned>>
  /\ UNCHANGED <<mergeVars, clsxVars, pairVars, apiVars, repeatVars>>

\* The render pass ends; the next pass may start.
EndPass ==
  /\ out # NoOut
  /\ out' = NoOut
  /\ UNCHANGED <<called, name, slots, slotProps, options, memoSlot, memoWrapped, returned>>
  /\ UNCHANGED <<mergeVars, clsxVars, pairVars, apiVars, repeatVars>>

Next ==
  \/ Mount \/ Rerender \/ RerenderName \/ RerenderSlots \/ RerenderSlotProps
  \/ RerenderOptions \/ RerenderFresh \/ Invoke \/ InvokeRender \/ EndPass

Spec == Init /\ [][Next]_vars

\* mergeProps(...inputs) is called: the arguments are evaluated, and the call
\* returns {} at once for no input or starts the reduce on a new accumulator.
Call ==
  /\ pc = "idle"
  /\ \E lits \in ArgLits, shared \in BOOLEAN :
       LET args == LoadArgs(<<>>, lits, <<>>, shared)
           init == InitialAcc(args.h, args.vals)
       IN /\ (shared => \E i, j \in 1..Len(lits) : i < j /\ lits[i] = lits[j])
          /\ inputs' = args.vals
          /\ snap' = args.h
          /\ idx' = 0
          /\ accBefore' = NoTree
          /\ IF Len(args.vals) = 0
               THEN /\ heap' = Append(args.h, EmptyObject)
                    /\ acc' = Len(args.h) + 1
                    /\ pc' = "done"
               ELSE /\ heap' = init.h
                    /\ acc' = init.a
                    /\ pc' = "reduce"
  /\ UNCHANGED <<slotVars, clsxVars, pairVars, apiVars, repeatVars>>

\* The reduce callback runs for the next input.
ReduceCallback ==
  /\ pc = "reduce"
  /\ idx < Len(inputs)
  /\ LET r == ReduceStep(heap, acc, inputs[idx + 1])
     IN /\ heap' = r.h
        /\ pc' = IF r.ok THEN "reduce" ELSE "threw"
  /\ accBefore' = TreeOf(heap, Ref(acc))
  /\ idx' = idx + 1
  /\ UNCHANGED <<inputs, acc, snap>>
  /\ UNCHANGED <<slotVars, clsxVars, pairVars, apiVars, repeatVars>>

\* The reduce is over: mergeProps returns the accumulator.
Return ==
  /\ pc = "reduce"
  /\ idx = Len(inputs)
  /\ pc' = "done"
  /\ UNCHANGED <<heap, inputs, acc, idx, snap, accBefore>>
  /\ UNCHANGED <<slotVars, clsxVars, pairVars, apiVars, repeatVars>>

\* The caller is done with the result (or with the exception).
Release ==
  /\ pc \in {"done", "threw"}
  /\ heap' = <<>>
  /\ inputs' = <<>>
  /\ acc' = 0
  /\ idx' = 0
  /\ pc' = "idle"
  /\ snap' = <<>>
  /\ accBefore' = NoTree
  /\ UNCHANGED <<slotVars, clsxVars, pairVars, apiVars, repeatVars>>

NextMerge == Call \/ ReduceCallback \/ Return \/ Release

SpecMerge == Init /\ [][NextMerge]_vars

\* clsx(...inputs) is called: the arguments are evaluated and the reduce
\* starts on the empty string.
ClsxCall ==
  /\ clsxPc = "idle"
  /\ \E lits \in ClsxArgLits :
       LET args == LoadArgs(<<>>, lits, <<>>, FALSE)
       IN /\ clsxHeap' = args.h
          /\ clsxInputs' = args.vals
  /\ clsxAcc' = ""
  /\ clsxIdx' = 0
  /\ clsxPc' = "reduce"
  /\ UNCHANGED <<slotVars, mergeVars, pairVars, apiVars, repeatVars>>

\* The reduce callback of clsx runs for the next input.
ClsxCallback ==
  /\ clsxPc = "reduce"
  /\ clsxIdx < Len(clsxInputs)
  /\ clsxAcc' = ClsxStep(clsxHeap, clsxAcc, clsxInputs[clsxIdx + 1])
  /\ clsxIdx' = clsxIdx + 1
  /\ UNCHANGED <<clsxHeap, clsxInputs, clsxPc>>
  /\ UNCHANGED <<slotVars, mergeVars, pairVars, apiVars, repeatVars>>

\* The reduce is over: clsx returns the accumulated string.
ClsxReturn ==
  /\ clsxPc = "reduce"
  /\ clsxIdx = Len(clsxInputs)
  /\ clsxPc' = "done"
  /\ UNCHANGED <<clsxHeap, clsxInputs, clsxAcc, clsxIdx>>
  /\ UNCHANGED <<slotVars, mergeVars, pairVars, apiVars, repeatVars>>

\* The caller is done with the string.
ClsxRelease ==
  /\ clsxPc = "done"
  /\ clsxHeap' = <<>>
  /\ clsxInputs' = <<>>
  /\ clsxAcc' = ""
  /\ clsxIdx' = 0
  /\ clsxPc' = "idle"
  /\ UNCHANGED <<slotVars, mergeVars, pairVars, apiVars, repeatVars>>

NextClsx == ClsxCall \/ ClsxCallback \/ ClsxReturn \/ ClsxRelease

SpecClsx == Init /\ [][NextClsx]_vars

\* A component calls the paired useSlot(name, params) during its render.
PairCall ==
  /\ pairPc = "idle"
  /\ \E n \in Names, lit \in PairParamsLits :
       \E r \in {useSlotPair(Load(<<>>, lit).h, n, Load(<<>>, lit).v)} :
          /\ pairName' = n
          /\ pairParams' = Load(<<>>, lit).v
          /\ pairBefore' = Load(<<>>, lit).h
          /\ pairHeap' = r.h
          /\ pairResult' = r.result
          /\ pairPc' = IF r.ok THEN "returned" ELSE "threw"
  /\ UNCHANGED <<slotVars, mergeVars, clsxVars, apiVars, repeatVars>>

\* The render pass that made the call ends.
PairEndPass ==
  /\ pairPc # "idle"
  /\ pairPc' = "idle"
  /\ pairName' = ""
  /\ pairParams' = UndefV
  /\ pairBefore' = <<>>
  /\ pairHeap' = <<>>
  /\ pairResult' = NoResult
  /\ UNCHANGED <<slotVars, mergeVars, clsxVars, apiVars, repeatVars>>

NextPair == PairCall \/ PairEndPass

SpecPair == Init /\ [][NextPair]_vars

\* The objects a parent can pass to Slot in a position: none, a newly made one,
\* or the one it passed in the render before.
SlotArgs(contents, field) ==
  IF slotOut.rendered
    THEN NewArgs(contents, {slotOut.props[field].id}) \cup {slotOut.props[field]}
    ELSE NewArgs(contents, {})

\* Contents of the parentProps.slotProps a parent hands to <Slot>.
ParentSlotPropsContents ==
  {[n \in {"root"} |-> [id |-> "s"]],
   [n \in {"header"} |-> StyledEntry],
   [n \in Names |-> IF n = "root" THEN StyledEntry ELSE [id |-> "s"]]}

\* The props a parent renders <Slot> with.
SlotPropsChoices ==
  {SlotElementProps(n, s, sp, d, ch, rest) :
     n \in Names, s \in SlotArgs(SlotsContents, "slots"),
     sp \in SlotArgs(ParentSlotPropsContents, "slotProps"), d \in {U, "B"},
     ch \in {U, "c"}, rest \in PartialMaps({"id"}, {"c"})}

\* React renders <Slot ...> in state `site` of its call site with props p.
RenderSlotComponent(site, p) ==
  /\ \E r \in {Slot(site, p)} :
       /\ slotSite' = r.site
       /\ slotOut' = [rendered |-> TRUE, props |-> p, el |-> r.el]
  /\ UNCHANGED <<slotVars, mergeVars, clsxVars, pairVars, slottableOut, repeatVars>>

\* The parent mounts a <Slot>: the first render of the Slot component.
SlotMount ==
  /\ ~slotOut.rendered
  /\ \E p \in SlotPropsChoices : RenderSlotComponent(NoSite, p)

\* The parent renders again: Slot is rendered with the props it is passed now.
SlotUpdate ==
  /\ slotOut.rendered
  /\ \E p \in SlotPropsChoices : RenderSlotComponent(slotSite, p)

\* The parent stops rendering the <Slot>: React discards its hook state.
SlotUnmount ==
  /\ slotOut.rendered
  /\ slotSite' = NoSite
  /\ slotOut' = NoSlotOut
  /\ UNCHANGED <<slotVars, mergeVars, clsxVars, pairVars, slottableOut, repeatVars>>

NextSlot == SlotMount \/ SlotUpdate \/ SlotUnmount

SpecSlot == Init /\ [][NextSlot]_vars

\* The params of the calls that are repeated: slotProps and extraProps vary.
RepeatParamsLits ==
  {TMapOpt(<<"ref", "component", "props", "className", "extraProps">>,
           <<RefLit("el"), S("div"),
             PropsLit(NoTree, NoTree, sp, S("own"),
                      <<S("own"), StyleLit(<<"color", "margin">>, "own"), NoTree>>),
             S("base"), ex>>) :
     sp \in {NoTree}
              \cup {TMap(<<n>>, <<e>>) :
                      n \in Names,
                      e \in {TMap(<<"className">>, <<S("sp")>>),
                             TMap(<<"id", "style">>,
                                  <<S("sp"), StyleLit(<<"color">>, "sp")>>)}},
     ex \in {NoTree, TMap(<<"className">>, <<S("ex")>>),
             TMap(<<"id", "style">>, <<S("ex"), StyleLit(<<"color", "size">>, "ex")>>)}}

\* The objects the component holds after the first call and may pass on:
\* slotProps[name], extraProps and the props the first call returned.
HeldObjects ==
  {v \in {OptChain(world, OptChain(world, OptChain(world, pairParams, "props"), "slotProps"),
                   pairName),
          OptChain(world, pairParams, "extraProps"),
          pairResult.props} : v.t = "ref"}

\* The argument lists of a call of mergeProps made in between.
BetweenMergeArgs ==
  {<<x>> : x \in HeldObjects}
    \cup {ins \in HeldObjects \X HeldObjects : ins[1] # ins[2]}

\* A component calls the paired useSlot(name, params); the call will be repeated.
RepeatCall ==
  /\ pairPc = "idle"
  /\ \E n \in Names, lit \in RepeatParamsLits :
       \E r \in {useSlotPair(Load(<<>>, lit).h, n, Load(<<>>, lit).v)} :
          /\ pairName' = n
          /\ pairParams' = Load(<<>>, lit).v
          /\ pairBefore' = Load(<<>>, lit).h
          /\ pairHeap' = r.h
          /\ pairResult' = r.result
          /\ pairPc' = IF r.ok THEN "returned" ELSE "threw"
          /\ world' = r.h
  /\ between' = <<>>
  /\ pairAgain' = NoAgain
  /\ UNCHANGED <<slotVars, mergeVars, clsxVars, apiVars>>

\* In between, mergeProps is called on objects the component holds.
BetweenMerge ==
  /\ pairPc = "returned" /\ ~pairAgain.done /\ Len(between) < MaxBetween
  /\ \E ins \in BetweenMergeArgs :
       \E r \in {MergeProps(world, ins)} :
          /\ world' = r.h
          /\ between' = Append(between, [fn |-> "mergeProps", ok |-> r.ok])
  /\ UNCHANGED <<slotVars, mergeVars, clsxVars, apiVars, pairVars, pairAgain>>

\* In between, clsx is called on the class names of the params and on an
\* object the component holds.
BetweenClsx ==
  /\ pairPc = "returned" /\ ~pairAgain.done /\ Len(between) < MaxBetween
  /\ \E x \in HeldObjects :
       \E r \in {clsx(world, <<OptChain(world, pairParams, "className"), x>>)} :
          between' = Append(between, [fn |-> "clsx", ok |-> TRUE, className |-> r])
  /\ UNCHANGED <<slotVars, mergeVars, clsxVars, apiVars, pairVars, world, pairAgain>>

\* In between, the paired useSlot resolves another slot with the same params.
BetweenResolve ==
  /\ pairPc = "returned" /\ ~pairAgain.done /\ Len(between) < MaxBetween
  /\ \E n \in Names \ {pairName} :
       \E r \in {useSlotPair(world, n, pairParams)} :
          /\ world' = r.h
          /\ between' = Append(between, [fn |-> "useSlot", ok |-> r.ok])
  /\ UNCHANGED <<slotVars, mergeVars, clsxVars, apiVars, pairVars, pairAgain>>

\* The component calls the paired useSlot again with the same name and params.
CallAgain ==
  /\ pairPc # "idle" /\ ~pairAgain.done
  /\ \E r \in {useSlotPair(world, pairName, pairParams)} :
       /\ world' = r.h
       /\ pairAgain' = [done |-> TRUE, ok |-> r.ok, result |-> r.result]
  /\ UNCHANGED <<slotVars, mergeVars, clsxVars, apiVars, pairVars, between>>

\* The component is done with both results.
RepeatEnd ==
  /\ pairAgain.done
  /\ pairPc' = "idle"
  /\ pairName' = ""
  /\ pairParams' = UndefV
  /\ pairBefore' = <<>>
  /\ pairHeap' = <<>>
  /\ pairResult' = NoResult
  /\ world' = <<>>
  /\ between' = <<>>
  /\ pairAgain' = NoAgain
  /\ UNCHANGED <<slotVars, mergeVars, clsxVars, apiVars>>

NextRepeat ==
  RepeatCall \/ BetweenMerge \/ BetweenClsx \/ BetweenResolve \/ CallAgain \/ RepeatEnd

SpecRepeat == Init /\ [][NextRepeat]_vars

\* The letters names are written with.
Letters == {"C", "a"}

\* Every name of at most n letters, the empty name included.
RECURSIVE Words(_)
Words(n) ==
  IF n = 0 THEN {""} ELSE Words(n - 1) \cup {w \o c : w \in Words(n - 1), c \in Letters}

\* The displayName argument: left out, or a string (the empty one included).
DisplayNameArgs == {UndefV} \cup {Str(w) : w \in Words(MaxNameLen)}

\* A module calls slottable(render, displayName) to make a component.
Slottable ==
  /\ \E nm \in Words(MaxNameLen), dn \in DisplayNameArgs :
       slottableOut' = [made |-> TRUE, render |-> RenderFunction(nm), displayName |-> dn,
                        component |-> slottable(RenderFunction(nm), dn)]
  /\ UNCHANGED <<slotVars, mergeVars, clsxVars, pairVars, slotSite, slotOut, repeatVars>>

\* The module is loaded anew (a test file starts): no component is held.
SlottableReset ==
  /\ slottableOut.made
  /\ slottableOut' = NoComponent
  /\ UNCHANGED <<slotVars, mergeVars, clsxVars, pairVars, slotSite, slotOut, repeatVars>>

NextSlottable == Slottable \/ SlottableReset

SpecSlottable == Init /\ [][NextSlottable]_vars

(***************************************************************************)
(* Properties of useSlot.                                                  *)
(***************************************************************************)
\* The extra props of the latest call: every field of options except `slot`.
ExtraOfCall == [k \in (DOMAIN options.v) \ {"slot"} |-> options.v[k]]

\* The slotProps entry of the latest call for its slot name (empty when absent).
EntryOfCall == IF name \in DOMAIN slotProps.v THEN slotProps.v[name] ELSE EmptyMap

\* The latest call supplied props.slots[name].
OverrideSupplied == name \in DOMAIN slots.v

\* The latest call supplied options.slot.
DefaultSupplied == "slot" \in DOMAIN options.v

\* C1: for every key k, the props handed to the resolved renderable carry
\* extra[k] if k is a key of the extra props, else slotProps[name][k] if k is a
\* key of that entry, else callProps[k]: extra props win over slotProps[name],
\* which win over the call-time props.
C1_ExtraOverEntryOverCall ==
  (out # NoOut /\ out.el # Null) =>
    \A k \in Keys \cup EntryKeys :
      LET p == out.el.props
      IN IF k \in DOMAIN ExtraOfCall
           THEN k \in DOMAIN p /\ p[k] = ExtraOfCall[k]
           ELSE IF k \in DOMAIN EntryOfCall
             THEN k \in DOMAIN p /\ p[k] = EntryOfCall[k]
             ELSE IF k \in DOMAIN out.callProps
               THEN k \in DOMAIN p /\ p[k] = out.callProps[k]
               ELSE k \notin DOMAIN p

\* A callback was invoked with an id while slotProps[name] and the extra props
\* hold an id too, and a second key came from the call-time props alone.
C1_Witness ==
  /\ out # NoOut /\ out.el # Null
  /\ "id" \in DOMAIN out.callProps /\ "children" \in DOMAIN out.callProps
  /\ "id" \in DOMAIN EntryOfCall
  /\ "id" \in DOMAIN ExtraOfCall /\ "children" \notin DOMAIN ExtraOfCall
  /\ out.el.props["id"] = "e" /\ out.el.props["children"] = "c"

\* C2: the resolved renderable is props.slots[name] whenever that entry is
\* supplied, whatever options.slot is; it is options.slot when props.slots is
\* absent or has no entry for the name and options.slot is supplied.
C2_OverrideThenDefault ==
  out # NoOut =>
    /\ OverrideSupplied => out.el.type = slots.v[name]
    /\ (~OverrideSupplied /\ DefaultSupplied) => out.el.type = options.v["slot"]

\* An override and a default were both supplied and the override was rendered.
C2_Witness ==
  /\ out # NoOut
  /\ OverrideSupplied /\ DefaultSupplied
  /\ slots.v[name] # options.v["slot"]
  /\ out.el.type = slots.v[name]

ArgsUnchanged ==
  /\ called /\ called'
  /\ name' = name
  /\ slots' = slots
  /\ slotProps' = slotProps
  /\ options' = options

\* C4: across two consecutive calls at one call site in which the slot name,
\* props.slots, props.slotProps, the default renderable and the extra props are
\* all unchanged, the second call returns the very same callback as the first.
C4_StableCallback == [][ArgsUnchanged => returned'.id = returned.id]_vars

\* What an uncached resolution of the latest call's arguments renders for cp.
Uncached(cp) ==
  Element(Nullish(Nullish(IF OverrideSupplied THEN slots.v[name] ELSE U,
                          IF DefaultSupplied THEN options.v["slot"] ELSE U),
                  SlotFragment),
          Spread(Spread(cp, EntryOfCall), ExtraOfCall))

\* C5: after any sequence of calls in which the arguments change identity
\* between calls, the callback the latest call returned selects the renderable
\* and merges the props exactly as an uncached resolution of the latest call's
\* arguments would.
C5_NeverStale ==
  called => \A cp \in CallProps : WrappedComponent(returned, cp) = Uncached(cp)

\* Every argument object was replaced since the mount, the slot name has an
\* override, and the callback of the latest call was invoked.
C5_Witness ==
  /\ slots.id = 2 /\ slotProps.id = 2 /\ options.id = 2
  /\ memoWrapped.value.id # 1
  /\ OverrideSupplied /\ name \in DOMAIN slotProps.v
  /\ out.variant = "component"
  /\ out.el = Uncached(out.callProps)

(***************************************************************************)
(* Properties of mergeProps.                                               *)
(***************************************************************************)
\* The keys of a map literal.
KeySet(tr) == {tr.keys[i] : i \in 1..Len(tr.keys)}

\* The value a map literal holds at key k.
Kid(tr, k) == tr.kids[IndexOf(tr.keys, k)]

\* The reduce has folded an input in, and that fold completed.
Folded == pc \in {"reduce", "done"} /\ idx > 0

\* The input of the latest fold, the accumulator after it, by value.
LatestInput == TreeOf(snap, inputs[idx])
AccNow == TreeOf(heap, Ref(acc))

\* The keys the latest fold assigned: those of a map input the reduce did not skip.
FoldedKeys == IF LatestInput.t = "map" THEN KeySet(LatestInput) ELSE {}

\* C6: mergeProps returns a new map and leaves every input unchanged: each
\* input map, and every nested map or array reachable from it, has after the
\* call (and at every point of it) exactly the keys and values it had before.
C6_InputsUnchanged ==
  pc # "idle" =>
    /\ \A a \in 1..Len(snap) : heap[a] = snap[a]
    /\ \A i \in 1..Len(inputs) : TreeOf(heap, inputs[i]) = TreeOf(snap, inputs[i])
    /\ acc \notin 1..Len(snap)

\* Two different maps with a nested map at the same key were merged, and the
\* result is a map that differs from both.
C6_Witness ==
  /\ pc = "done" /\ Len(inputs) = 2
  /\ IsMapObj(snap, GetProp(snap, inputs[1], "a"))
  /\ IsMapObj(snap, GetProp(snap, inputs[2], "a"))
  /\ AccNow # TreeOf(snap, inputs[1])
  /\ AccNow # TreeOf(snap, inputs[2])

RECURSIVE IsDeepMerge(_, _, _)

\* r is the recursive merge of the maps x (earlier) and y (later): it has every
\* key of either; a key of y holds y's value, merged in the same way with x's
\* when both are maps; a key of x alone holds x's value.
IsDeepMerge(r, x, y) ==
  /\ r.t = "map"
  /\ KeySet(r) = KeySet(x) \cup KeySet(y)
  /\ \A s \in KeySet(r) :
       IF s \in KeySet(y)
         THEN IF Kid(y, s).t = "map" /\ s \in KeySet(x) /\ Kid(x, s).t = "map"
                THEN IsDeepMerge(Kid(r, s), Kid(x, s), Kid(y, s))
                ELSE Kid(r, s) = Kid(y, s)
         ELSE Kid(r, s) = Kid(x, s)

\* C7: when the value accumulated so far at a key is a plain map and a later
\* input holds a plain map at the same key, the result at that key is the
\* recursive merge of the two: every sub-key of either map, the later input's
\* value winning for a sub-key of both, at every depth.
C7_RecursiveMerge ==
  Folded =>
    \A k \in FoldedKeys :
      (k \in KeySet(accBefore) /\ Kid(accBefore, k).t = "map" /\ Kid(LatestInput, k).t = "map")
        => /\ k \in KeySet(AccNow)
           /\ IsDeepMerge(Kid(AccNow, k), Kid(accBefore, k), Kid(LatestInput, k))

\* Maps nested two levels deep under "a" were merged: the inner map of the
\* result has a key of the earlier input and a key of the later one.
C7_Witness ==
  /\ pc = "done" /\ idx = 2
  /\ accBefore = TMap(<<"a">>, <<TMap(<<"a">>, <<TMap(<<"a">>, <<TPrim(Num(1))>>)>>)>>)
  /\ LatestInput = TMap(<<"a">>, <<TMap(<<"a">>, <<TMap(<<"b">>, <<TPrim(Num(2))>>)>>)>>)
  /\ AccNow = TMap(<<"a">>, <<TMap(<<"a">>,
                     <<TMap(<<"a", "b">>, <<TPrim(Num(1)), TPrim(Num(2))>>)>>)>>)

\* C8: when a later input holds at a key a value that is not a plain map (a
\* primitive, null, an array, a date, a regex or a function), the result at
\* that key equals that later value and nothing of an earlier value survives.
C8_NonMapReplaces ==
  Folded =>
    \A k \in FoldedKeys :
      Kid(LatestInput, k).t # "map"
        => k \in KeySet(AccNow) /\ Kid(AccNow, k) = Kid(LatestInput, k)

\* An array replaced a nested map, or a later date an earlier, different one.
C8_Witness ==
  /\ pc = "done" /\ idx = 2
  /\ "a" \in KeySet(accBefore) /\ "a" \in FoldedKeys
  /\ \/ Kid(accBefore, "a").t = "map" /\ Kid(accBefore, "a").keys # <<>>
        /\ Kid(LatestInput, "a") = TArr(<<TPrim(Num(1))>>)
     \/ Kid(accBefore, "a") = TDate(1) /\ Kid(LatestInput, "a") = TDate(2)
  /\ Kid(AccNow, "a") = Kid(LatestInput, "a")

\* C9: when a later input holds a plain map at a key whose accumulated value
\* is absent or is not a plain map (a primitive, null, an array, a date), the
\* result at that key equals a copy of the later map alone.
C9_MapReplacesNonMap ==
  Folded =>
    \A k \in FoldedKeys :
      (Kid(LatestInput, k).t = "map"
         /\ (k \notin KeySet(accBefore) \/ Kid(accBefore, k).t # "map"))
        => k \in KeySet(AccNow) /\ Kid(AccNow, k) = Kid(LatestInput, k)

\* A non-empty map replaced a non-empty array.
C9_Witness ==
  /\ pc = "done" /\ idx = 2
  /\ "a" \in KeySet(accBefore) /\ "a" \in FoldedKeys
  /\ Kid(accBefore, "a") = TArr(<<TPrim(Num(1))>>)
  /\ Kid(LatestInput, "a").t = "map" /\ Kid(LatestInput, "a").keys # <<>>
  /\ Kid(AccNow, "a") = Kid(LatestInput, "a")

\* C10: a key that a later input holds with value undefined overwrites any
\* earlier value at that key: in the result the key is own-present and its
\* value is undefined.
C10_UndefinedOverwrites ==
  Folded =>
    \A k \in FoldedKeys :
      Kid(LatestInput, k) = TPrim(UndefV)
        => k \in KeySet(AccNow) /\ Kid(AccNow, k) = TPrim(UndefV)

\* undefined overwrote an array, null, a number or a map.
C10_Witness ==
  /\ pc = "done" /\ idx = 2
  /\ "a" \in KeySet(accBefore) /\ "a" \in FoldedKeys
  /\ Kid(accBefore, "a").t \in {"array", "null", "num", "map"}
  /\ Kid(LatestInput, "a") = TPrim(UndefV)
  /\ "a" \in KeySet(AccNow) /\ Kid(AccNow, "a") = TPrim(UndefV)

RECURSIVE Reachable(_, _)

\* The addresses of the objects reachable from the value v in heap h.
Reachable(h, v) ==
  IF v.t # "ref"
    THEN {}
    ELSE {v.x} \cup UNION {Reachable(h, h[v.x].vals[i]) : i \in 1..Len(h[v.x].vals)}

\* The plain maps and arrays reachable from v.
MutableReach(h, v) == {a \in Reachable(h, v) : h[a].kind \in {"map", "array"}}

\* C11: the result shares no mutable substructure with any input: every plain
\* map and every array reachable from the result, at any depth, is an object
\* distinct from every map and array reachable from any input.
C11_NoSharedSubstructure ==
  pc # "idle" =>
    \A i \in 1..Len(inputs) :
      MutableReach(heap, Ref(acc)) \cap MutableReach(heap, inputs[i]) = {}

\* A map holding an array inside a nested map was merged: the result equals
\* the input by value and has three objects of its own.
C11_Witness ==
  /\ pc = "done" /\ idx = 1
  /\ LatestInput = TMap(<<"a">>, <<TMap(<<"a">>, <<TArr(<<TPrim(Num(1))>>)>>)>>)
  /\ AccNow = LatestInput
  /\ Cardinality(MutableReach(heap, Ref(acc))) = 3

RECURSIVE InDomain(_)

\* A value of the documented domain: a primitive, a function, an array or a
\* map, with members of the same kinds at any depth.
InDomain(tr) ==
  /\ tr.t \in {"undef", "null", "num", "str", "fn", "array", "map"}
  /\ \A i \in 1..Len(tr.kids) : InDomain(tr.kids[i])

\* Every input of the call is null, undefined or a map of the documented domain.
InputsInDomain ==
  \A i \in 1..Len(inputs) :
    LET tr == TreeOf(snap, inputs[i])
    IN tr.t \in {"undef", "null", "map"} /\ InDomain(tr)

\* C12: for every sequence of inputs that are null, undefined or maps whose
\* values are primitives, functions, arrays or nested maps (an array may hold
\* a function), the call completes and returns a map; it never ends in an error.
C12_Total == InputsInDomain => pc # "threw"

(***************************************************************************)
(* Properties of the paired useSlot.                                       *)
(***************************************************************************)
\* The literal undefined.
UndefLit == TPrim(UndefV)

\* The value a literal holds at key k; undefined when it is not a map with k.
Field(tr, k) == IF tr.t = "map" /\ k \in KeySet(tr) THEN Kid(tr, k) ELSE UndefLit

\* The params of the call, its props, extraProps and slotProps[name], by value.
ParamsOfCall == TreeOf(pairBefore, pairParams)
PropsOfCall == Field(ParamsOfCall, "props")
ExtraPropsOfCall == Field(ParamsOfCall, "extraProps")
PairEntryOfCall == Field(Field(PropsOfCall, "slotProps"), pairName)

\* The returned prop set, by value.
ResultProps == TreeOf(pairHeap, pairResult.props)

\* C13: the returned renderable is props.component when name is "root" and
\* props.component is supplied, even if props.slots has an entry for "root";
\* otherwise it is props.slots[name] when that entry is supplied; otherwise
\* it is the default renderable params.component.
C13_ComponentThenSlotThenDefault ==
  pairPc = "returned" =>
    TPrim(pairResult.component) =
      IF pairName = "root" /\ Field(PropsOfCall, "component") # UndefLit
        THEN Field(PropsOfCall, "component")
        ELSE IF Field(Field(PropsOfCall, "slots"), pairName) # UndefLit
          THEN Field(Field(PropsOfCall, "slots"), pairName)
          ELSE Field(ParamsOfCall, "component")

\* The root slot was resolved with props.component and props.slots.root both
\* supplied, and props.component was returned.
C13_Witness ==
  /\ pairPc = "returned" /\ pairName = "root"
  /\ Field(PropsOfCall, "component") = S("section")
  /\ Field(Field(PropsOfCall, "slots"), "root") = S("A")
  /\ pairResult.component = Str("section")

\* The string of a className part; empty when the part is absent.
PartOf(tr) == IF tr.t = "str" THEN tr.x ELSE ""

RECURSIVE JoinParts(_)

\* The parts that are not empty, in order, with one space between two.
JoinParts(parts) ==
  IF parts = <<>>
    THEN ""
    ELSE IF Head(parts) = ""
      THEN JoinParts(Tail(parts))
      ELSE IF JoinParts(Tail(parts)) = ""
        THEN Head(parts)
        ELSE Head(parts) \o " " \o JoinParts(Tail(parts))

\* The className parts of the call, in the stated order.
ClassNameParts ==
  <<PartOf(Field(ParamsOfCall, "className")),
    IF pairName = "root" THEN PartOf(Field(PropsOfCall, "className")) ELSE "",
    PartOf(Field(ExtraPropsOfCall, "className")),
    PartOf(Field(PairEntryOfCall, "className"))>>

\* classNameMergeFn (identity by default) applied to the joined parts.
ExpectedClassName ==
  IF Field(ParamsOfCall, "classNameMergeFn") = UndefLit
    THEN JoinParts(ClassNameParts)
    ELSE CallMergeFn(Fn(Field(ParamsOfCall, "classNameMergeFn").x), JoinParts(ClassNameParts))

\* C14: the computed class name is classNameMergeFn (identity by default)
\* applied to the single-space concatenation, in this order, of the className
\* fragment, props.className (only for "root" and when non-empty),
\* extraProps.className and slotProps[name].className, absent or empty parts
\* skipped; when that string is non-empty it is the className of the returned
\* prop set, overriding the className of every merged source.
C14_ClassNameOrder ==
  (pairPc = "returned" /\ ExpectedClassName # "")
    => Field(ResultProps, "className") = S(ExpectedClassName)

\* The four parts were all supplied for the root slot and the default merger
\* was used: the className is the four of them in order.
C14_Witness ==
  /\ pairPc = "returned" /\ pairName = "root"
  /\ ClassNameParts = <<"base", "own", "ex", "sp">>
  /\ Field(ParamsOfCall, "classNameMergeFn") = UndefLit
  /\ Field(ResultProps, "className") = S("base own ex sp")

\* The map literal tr without the keys of gone.
Without(tr, gone) ==
  LET at == SelectSeq([i \in 1..Len(tr.keys) |-> i], LAMBDA i : tr.keys[i] \notin gone)
  IN TMap([j \in 1..Len(at) |-> tr.keys[at[j]]], [j \in 1..Len(at) |-> tr.kids[at[j]]])

\* A source of the merge as a map: the empty map when it is absent.
AsMap(tr) == IF tr.t = "map" THEN tr ELSE TMap(<<>>, <<>>)

RECURSIVE DeepMergeTree(_, _)

\* The deep merge of the map x (lower precedence) and the map y (higher): the
\* keys of x, then the new keys of y; a key of y holds y's value, merged with
\* x's when both are maps; a key of x alone holds x's value.
DeepMergeTree(x, y) ==
  LET keys == x.keys \o SelectSeq(y.keys, LAMBDA k : k \notin KeySet(x))
  IN TMap(keys,
          [i \in 1..Len(keys) |->
             IF keys[i] \in KeySet(y)
               THEN IF Kid(y, keys[i]).t = "map" /\ keys[i] \in KeySet(x)
                         /\ Kid(x, keys[i]).t = "map"
                      THEN DeepMergeTree(Kid(x, keys[i]), Kid(y, keys[i]))
                      ELSE Kid(y, keys[i])
               ELSE Kid(x, keys[i])])

\* The consumer's other top-level props, counted only for the root slot.
RootPropsOfCall ==
  IF pairName = "root"
    THEN Without(PropsOfCall, {"component", "slots", "slotProps"})
    ELSE TMap(<<>>, <<>>)

\* Root props, then extraProps, then slotProps[name], deep-merged.
ExpectedProps ==
  DeepMergeTree(DeepMergeTree(RootPropsOfCall, AsMap(ExtraPropsOfCall)), AsMap(PairEntryOfCall))

\* C15: for every key other than className and ref, the returned prop set is
\* the deep merge, lowest to highest precedence, of the consumer's other
\* top-level props (only for "root"), then extraProps, then slotProps[name].
C15_DeepMergePrecedence ==
  pairPc = "returned" =>
    /\ KeySet(ResultProps) \ {"className", "ref"} = KeySet(ExpectedProps) \ {"className", "ref"}
    /\ \A k \in KeySet(ExpectedProps) \ {"className", "ref"} :
         Kid(ResultProps, k) = Kid(ExpectedProps, k)

\* The three sources of the root slot all hold an id and a style: the id of
\* slotProps.root won, and the style has a sub-key from each source.
C15_Witness ==
  /\ pairPc = "returned" /\ pairName = "root"
  /\ Field(PropsOfCall, "id") = S("own")
  /\ Field(ExtraPropsOfCall, "id") = S("ex")
  /\ Field(PairEntryOfCall, "id") = S("sp")
  /\ Field(ResultProps, "id") = S("sp")
  /\ Field(ResultProps, "style") =
       TMap(<<"color", "margin", "size">>, <<S("sp"), S("own"), S("ex")>>)

\* C16: the ref of the returned prop set is the very reference handle passed
\* as params.ref (same identity, never a clone), for every slot name and
\* whatever ref entries the root props, extraProps or slotProps[name] contain.
C16_RefByIdentity ==
  pairPc = "returned" =>
    /\ "ref" \in KeySet(ResultProps)
    /\ GetProp(pairHeap, pairResult.props, "ref") = GetProp(pairBefore, pairParams, "ref")
    /\ Field(ResultProps, "ref") = Field(ParamsOfCall, "ref")

\* A handle was passed as params.ref while the root props, extraProps and
\* slotProps.root each hold a ref of their own.
C16_Witness ==
  /\ pairPc = "returned" /\ pairName = "root"
  /\ Field(ParamsOfCall, "ref") = RefLit("el")
  /\ Field(PropsOfCall, "ref") = RefLit("o")
  /\ Field(ExtraPropsOfCall, "ref") = RefLit("y")
  /\ Field(PairEntryOfCall, "ref") = RefLit("x")
  /\ GetProp(pairHeap, pairResult.props, "ref") = GetProp(pairBefore, pairParams, "ref")

\* The call supplied no override for the slot: neither props.component for
\* "root" nor an entry of props.slots.
NoOverrideInCall ==
  /\ ~(pairName = "root" /\ Field(PropsOfCall, "component") # UndefLit)
  /\ Field(Field(PropsOfCall, "slots"), pairName) = UndefLit

\* C17: the call raises no error when optional inputs are missing: for every
\* slot name and every combination of absent props.slots, props.slotProps,
\* entry for the name, extraProps, className fragment and classNameMergeFn,
\* it returns a (renderable, props) pair chosen by the fallback chain.
C17_NoErrorOnMissingInputs ==
  pairPc # "idle" =>
    /\ pairPc = "returned"
    /\ pairResult.props.t = "ref"
    /\ NoOverrideInCall => TPrim(pairResult.component) = Field(ParamsOfCall, "component")

\* A slot was resolved with props = {} but for an id, and no ref, extraProps,
\* fragment or merger: the default renderable came back with the id.
C17_Witness ==
  /\ pairPc = "returned" /\ pairName = "root"
  /\ ParamsOfCall = TMap(<<"component", "props">>, <<S("div"), TMap(<<"id">>, <<S("own")>>)>>)
  /\ pairResult.component = Str("div")
  /\ ResultProps = TMap(<<"id", "ref">>, <<S("own"), UndefLit>>)

(***************************************************************************)
(* Properties of clsx.                                                     *)
(***************************************************************************)
\* The i-th input of the call, by value.
ClsxInput(i) == TreeOf(clsxHeap, clsxInputs[i])

\* C18: for every non-empty string s, clsx(s) returns s unchanged; for every
\* argument list made only of falsy values (0, -0, false, null, undefined, the
\* empty string, NaN), of any length, clsx returns the empty string.
C18_IdentityLaws ==
  clsxPc = "done" =>
    /\ (Len(clsxInputs) = 1 /\ clsxInputs[1].t = "str" /\ clsxInputs[1].x # "")
         => clsxAcc = clsxInputs[1].x
    /\ (\A i \in 1..Len(clsxInputs) : ClsxInput(i) \in FalsyLits) => clsxAcc = ""

\* clsx returned the empty string for -0, NaN and the empty string.
C18_Witness ==
  /\ clsxPc = "done"
  /\ clsxInputs = <<NegZeroV, NaNV, Str("")>>
  /\ clsxAcc = ""

\* The keys of a map literal whose value is not one of the falsy values, in
\* the map's order.
IncludedKeys(tr) == SelectSeq(tr.keys, LAMBDA k : Kid(tr, k) \notin FalsyLits)

\* C19: the contribution of a map argument is exactly its own enumerable keys
\* whose value is truthy (a function, an empty array or an empty map counts
\* as truthy), in the map's iteration order, joined by a single space; keys
\* whose value is falsy are skipped.
C19_MapSemantics ==
  (clsxPc = "done" /\ \A i \in 1..Len(clsxInputs) : IsMapObj(clsxHeap, clsxInputs[i]))
    => clsxAcc = JoinParts([i \in 1..Len(clsxInputs) |-> JoinParts(IncludedKeys(ClsxInput(i)))])

\* The map of six keys gave its two keys with a truthy value, a space between.
C19_Witness ==
  /\ clsxPc = "done" /\ Len(clsxInputs) = 1
  /\ IsMapObj(clsxHeap, clsxInputs[1])
  /\ Len(ClsxInput(1).keys) = 6
  /\ IncludedKeys(ClsxInput(1)) = <<"a", "f">>
  /\ clsxAcc = "a f"

RECURSIVE Leaves(_, _)

\* The values vals with every array replaced by its elements, at any depth,
\* depth-first and left to right.
Leaves(h, vals) ==
  IF vals = <<>>
    THEN <<>>
    ELSE (IF IsArray(h, Head(vals)) THEN Leaves(h, h[Head(vals).x].vals) ELSE <<Head(vals)>>)
           \o Leaves(h, Tail(vals))

\* C20: for arrays nested to any depth, clsx of the nested arguments equals
\* clsx of the same leaf values listed flat in depth-first left-to-right
\* order; empty arrays at any depth contribute nothing.
C20_ArrayFlattening ==
  clsxPc = "done" => clsxAcc = clsx(clsxHeap, Leaves(clsxHeap, clsxInputs))

\* clsx(["a", ["b", ["c", {d: true}]]]) returned "a b c d", the leaves being
\* "a", "b", "c" and the map.
C20_Witness ==
  /\ clsxPc = "done" /\ Len(clsxInputs) = 1
  /\ ClsxInput(1).t = "array"
  /\ Len(Leaves(clsxHeap, clsxInputs)) = 4
  /\ IsMapObj(clsxHeap, Leaves(clsxHeap, clsxInputs)[4])
  /\ clsxAcc = "a b c d"

\* The i-th character of the string s, as a string.
CharAt(s, i) == SubSeq(s, i, i)

\* s has no leading space, no trailing space and no two consecutive spaces.
NoStraySpace(s) ==
  \/ s = ""
  \/ /\ CharAt(s, 1) # " "
     /\ CharAt(s, Len(s)) # " "
     /\ \A i \in 1..(Len(s) - 1) : ~(CharAt(s, i) = " " /\ CharAt(s, i + 1) = " ")

RECURSIVE CleanNames(_)

\* Every string and every map key of the literal, at any array depth, has
\* itself no leading, trailing or double space.
CleanNames(tr) ==
  CASE tr.t = "str" -> NoStraySpace(tr.x)
    [] tr.t = "map" -> \A i \in 1..Len(tr.keys) : NoStraySpace(tr.keys[i])
    [] tr.t = "array" -> \A i \in 1..Len(tr.kids) : CleanNames(tr.kids[i])
    [] OTHER -> TRUE

\* C21 as stated: for every argument list accepted by clsx, the returned
\* string has no leading space, no trailing space and no two consecutive
\* spaces.
C21_NoStraySpace_AsStated == clsxPc = "done" => NoStraySpace(clsxAcc)

\* C21, amended: for every argument list whose strings and map keys have
\* themselves no leading, trailing or double space, the returned string has
\* no leading space, no trailing space and no two consecutive spaces, however
\* many arguments contribute nothing.
C21_NoStraySpace ==
  (clsxPc = "done" /\ \A i \in 1..Len(clsxInputs) : CleanNames(ClsxInput(i)))
    => NoStraySpace(clsxAcc)

\* clsx(["foo", ["bar", ["", [["baz"]]]]]): an empty string and empty
\* contributions between three names, one space between two of them.
C21_Witness ==
  /\ clsxPc = "done" /\ Len(clsxInputs) = 1
  /\ CleanNames(ClsxInput(1))
  /\ Len(Leaves(clsxHeap, clsxInputs)) = 4
  /\ Leaves(clsxHeap, clsxInputs)[3] = Str("")
  /\ clsxAcc = "foo bar baz"

RECURSIVE WithoutInert(_)

\* The literals lits without the boolean true and the functions, the same
\* being done inside every array, at any depth.
WithoutInert(lits) ==
  IF lits = <<>>
    THEN <<>>
    ELSE IF Head(lits) = TPrim(BoolV(TRUE)) \/ Head(lits).t = "fn"
      THEN WithoutInert(Tail(lits))
      ELSE IF Head(lits).t = "array"
        THEN <<TArr(WithoutInert(Head(lits).kids))>> \o WithoutInert(Tail(lits))
        ELSE <<Head(lits)>> \o WithoutInert(Tail(lits))

\* The arguments of the call, as literals.
ClsxInputLits == [i \in 1..Len(clsxInputs) |-> ClsxInput(i)]

\* What clsx returns for the argument literals lits.
ClsxOfLits(lits) ==
  clsx(LoadArgs(<<>>, lits, <<>>, FALSE).h, LoadArgs(<<>>, lits, <<>>, FALSE).vals)

\* C22: an argument or array element that is the boolean true or a function
\* contributes nothing, although it is truthy: removing every such value from
\* the arguments (at any array depth) leaves the result unchanged.
C22_TrueAndFunctionsInert ==
  clsxPc = "done" => clsxAcc = ClsxOfLits(WithoutInert(ClsxInputLits))

\* clsx(x, [[fn], "world"]) for a name x: the function inside the nested
\* array gave nothing.
C22_Witness ==
  /\ clsxPc = "done" /\ Len(clsxInputs) = 2
  /\ ClsxInput(1) = S("foo")
  /\ ClsxInput(2) = TArr(<<TArr(<<TPrim(Fn(1))>>), S("world")>>)
  /\ WithoutInert(ClsxInputLits) = <<S("foo"), TArr(<<TArr(<<>>), S("world")>>)>>
  /\ clsxAcc = "foo world"

\* The children the pass-through of the latest invocation is given: those of the
\* extra props if they carry children, else the call-time children, else none.
ChildrenGiven ==
  IF "children" \in DOMAIN ExtraOfCall
    THEN ExtraOfCall["children"]
    ELSE IF "children" \in DOMAIN out.callProps THEN out.callProps["children"] ELSE U

HookThenInvoke(n, s, sp, o, cp) ==
  WrappedComponent(useSlotAt(NoSite, n, s, sp, Obj(1, o)).returned, cp)

\* C24: rendering Slot with name, parentProps, default, children and rest props
\* yields the renderable and the final props that useSlot(name, parentProps,
\* {slot: default}) (options {} when default is absent), invoked with the rest
\* props plus children as call-time props, yields.
C24_SlotEqualsHook ==
  slotOut.rendered =>
    LET p == slotOut.props
        o == IF p.default = U THEN EmptyMap ELSE [k \in {"slot"} |-> p.default]
        cp == [k \in (DOMAIN p.rest) \cup {"children"} |->
                 IF k = "children" THEN p.children ELSE p.rest[k]]
        hook == HookThenInvoke(p.name, p.slots, p.slotProps, o, cp)
    IN /\ slotOut.el.type = hook.type
       /\ slotOut.el.props = hook.props

\* Slot was rendered again, with a default, children and an id, for a name
\* that has no override: the default renderable received the children and id.
C24_Witness ==
  /\ slotOut.rendered
  /\ slotSite.memoSlot.deps[2] = 2
  /\ slotOut.props.default = "B" /\ slotOut.props.children = "c"
  /\ slotOut.props.name \notin DOMAIN slotOut.props.slots.v
  /\ slotOut.el = [type |-> "B", props |-> [id |-> "c", children |-> "c"]]

\* C25: the component slottable returns has the given displayName whenever one
\* is provided; otherwise its displayName is "@zemd/react-slottable/" followed
\* by the render function's name, or by "UnknownComponent" when the render
\* function has no name.
C25_DisplayName ==
  slottableOut.made =>
    LET given == slottableOut.displayName
        nm == slottableOut.render.name
        shown == slottableOut.component.displayName
    IN /\ given # UndefV => shown = given
       /\ (given = UndefV /\ nm # "") => shown = Str("@zemd/react-slottable/" \o nm)
       /\ (given = UndefV /\ nm = "") =>
            shown = Str("@zemd/react-slottable/UnknownComponent")

\* slottable was called with a named render function and the empty string as
\* displayName: the component shows the empty string.
C25_Witness ==
  /\ slottableOut.made
  /\ slottableOut.render.name = "Ca"
  /\ slottableOut.displayName = Str("")
  /\ slottableOut.component.displayName = Str("")

\* C26: two calls of the paired useSlot with the same name and the same params,
\* with calls of mergeProps, of clsx and of the resolver for another slot in
\* between, both return or both throw, and return the same renderable and
\* structurally equal prop sets.
C26_SameInputsSameResult ==
  pairAgain.done =>
    /\ pairAgain.ok = (pairPc = "returned")
    /\ pairAgain.result.component = pairResult.component
    /\ TreeOf(world, pairAgain.result.props) = TreeOf(pairHeap, pairResult.props)

\* The call was repeated after a call of mergeProps that was given the
\* slotProps entry first and a call of the resolver for the other slot, and
\* both calls returned the entry's id.
C26_Witness ==
  /\ pairAgain.done /\ pairAgain.ok
  /\ Len(between) = 2
  /\ between[1].fn = "mergeProps" /\ between[2].fn = "useSlot"
  /\ Field(PairEntryOfCall, "id") = S("sp")
  /\ Field(ExtraPropsOfCall, "id") = S("ex")
  /\ Field(TreeOf(world, pairAgain.result.props), "id") = S("sp")

\* The map literal tr with the value at key k replaced by kid.
WithKid(tr, k, kid) ==
  TMap(tr.keys, [i \in 1..Len(tr.keys) |-> IF tr.keys[i] = k THEN kid ELSE tr.kids[i]])

\* The params of the call with every top-level prop of the consumer removed
\* except slots and slotProps.
ParamsWithoutOwnProps ==
  WithKid(ParamsOfCall, "props",
          Without(PropsOfCall, KeySet(PropsOfCall) \ {"slots", "slotProps"}))

\* The prop set useSlot(n, params) returns for the params literal lit, by value.
PropsReturnedFor(n, lit) ==
  TreeOf(useSlotPair(Load(<<>>, lit).h, n, Load(<<>>, lit).v).h,
         useSlotPair(Load(<<>>, lit).h, n, Load(<<>>, lit).v).result.props)

\* C27: for every slot name other than "root", the keys of the returned prop
\* set come only from extraProps, slotProps[name], the computed className and
\* ref, and the prop set is the one returned when the consumer passes no
\* top-level prop besides slots and slotProps: neither its className nor any
\* other key of the full props object reaches the result.
C27_NonRootIgnoresOwnProps ==
  (pairPc = "returned" /\ pairName # "root") =>
    /\ KeySet(ResultProps) \subseteq
         KeySet(AsMap(ExtraPropsOfCall)) \cup KeySet(AsMap(PairEntryOfCall))
           \cup {"className", "ref"}
    /\ ResultProps = PropsReturnedFor(pairName, ParamsWithoutOwnProps)

\* The header slot was resolved for a consumer that passes a className, an id,
\* a style and a ref of its own: the result has none of them.
C27_Witness ==
  /\ pairPc = "returned" /\ pairName = "header"
  /\ Field(PropsOfCall, "className") = S("own")
  /\ Field(PropsOfCall, "style") # UndefLit
  /\ Field(PropsOfCall, "ref") # UndefLit
  /\ Field(ParamsOfCall, "className") = S("base")
  /\ ExtraPropsOfCall = UndefLit
  /\ KeySet(ResultProps) = {"className", "ref"}
  /\ Field(ResultProps, "className") = S("base")
  /\ Field(ResultProps, "ref") = Field(ParamsOfCall, "ref")

\* The keys of the full props object that the destructuring picks.
PickedKeys == {"slots", "slotProps", "component"}

\* What extraProps and slotProps[name] hold, the entry over the extra props.
ExtraAndEntry == DeepMergeTree(AsMap(ExtraPropsOfCall), AsMap(PairEntryOfCall))

\* C28: for the slot name "root", the keys slots, slotProps and component of
\* the full props object are never copied into the returned prop set: such a
\* key is in the result only if extraProps or slotProps.root contains it, and
\* then with the value those two give it.
C28_PickedKeysNotCopied ==
  (pairPc = "returned" /\ pairName = "root") =>
    \A k \in PickedKeys :
      k \in KeySet(ResultProps) =>
        /\ k \in KeySet(ExtraAndEntry)
        /\ Kid(ResultProps, k) = Kid(ExtraAndEntry, k)

\* The root slot was resolved for a consumer that passes component, slots and
\* slotProps, with extra props that hold a component key: the result holds
\* the extra props' component and neither slots nor slotProps.
C28_Witness ==
  /\ pairPc = "returned" /\ pairName = "root"
  /\ Field(PropsOfCall, "component") = S("section")
  /\ Field(PropsOfCall, "slots") # UndefLit
  /\ Field(PropsOfCall, "slotProps") # UndefLit
  /\ Field(ExtraPropsOfCall, "component") = S("ex")
  /\ Field(ResultProps, "component") = S("ex")
  /\ KeySet(ResultProps) \cap {"slots", "slotProps"} = {}

\* The sources of the latest invocation that carry the key k, lowest first.
SourcesOf(k) ==
  SelectSeq(<<out.callProps, EntryOfCall, ExtraOfCall>>, LAMBDA src : k \in DOMAIN src)

\* C29: the render function and the returned component merge the props
\* shallowly: a key carried by more than one of the call-time props,
\* slotProps[name] and the extra props ends with exactly the value of its
\* highest-precedence source; a nested style map is that source's map, not a
\* key-by-key merge, and a className is that source's string, not a
\* concatenation.
C29_ShallowMerge ==
  (out # NoOut /\ out.el # Null) =>
    \A k \in {"id", "children", "className", "style"} :
      Len(SourcesOf(k)) > 1 =>
        /\ k \in DOMAIN out.el.props
        /\ out.el.props[k] = SourcesOf(k)[Len(SourcesOf(k))][k]

\* The returned component was rendered with a style of two keys and a
\* className, for a slotProps entry that carries a style of one key and a
\* className: the element got the entry's style and className alone.
C29_Witness ==
  /\ out.variant = "component"
  /\ out.callProps = StyledCall
  /\ EntryOfCall = StyledEntry
  /\ "style" \notin DOMAIN ExtraOfCall
  /\ out.el.props["style"] = [color |-> "s"]
  /\ out.el.props["className"] = "s"

\* mergeProps(mergeProps(a, b), c) for the inputs <<a, b, c>> on the heap h.
FoldTwice(h, ins) ==
  MergeProps(MergeProps(h, <<ins[1], ins[2]>>).h,
             <<MergeProps(h, <<ins[1], ins[2]>>).v, ins[3]>>)

\* The result of the call in progress, by value.
ReturnedTree == TreeOf(heap, Ref(acc))

\* The input i of the call in progress, by value.
InputTree(i) == TreeOf(snap, inputs[i])

\* What the three laws say of a call that has returned: mergeProps(a) and
\* mergeProps(a, a) give a for a map a, and mergeProps(a, b, c) gives what
\* mergeProps(mergeProps(a, b), c) gives.
FoldLaws ==
  /\ (Len(inputs) = 1 /\ InputTree(1).t = "map") => ReturnedTree = InputTree(1)
  /\ (Len(inputs) = 2 /\ InputTree(1).t = "map" /\ InputTree(2) = InputTree(1)) =>
       ReturnedTree = InputTree(1)
  /\ Len(inputs) = 3 =>
       /\ FoldTwice(snap, inputs).ok
       /\ ReturnedTree = TreeOf(FoldTwice(snap, inputs).h, FoldTwice(snap, inputs).v)

\* The laws hold of every call in the domain that returns.
FoldLawsWhenReturned == (pc = "done" /\ InputsInDomain) => FoldLaws

\* C30: for all a, b, c that are null, undefined or maps of primitives,
\* arrays, functions and nested maps, mergeProps(a, b, c) is structurally equal
\* to mergeProps(mergeProps(a, b), c), and for every such map a, mergeProps(a)
\* and mergeProps(a, a) are both structurally equal to a: every such call
\* returns, and returns what the laws say.
C30_FoldsLeftToRight ==
  (pc \in {"done", "threw"} /\ InputsInDomain /\ Len(inputs) \in {1, 2, 3}) =>
    (pc = "done" /\ FoldLaws)

====
